---- MODULE Spec2Model ----
(***************************************************************************)
(* A model of musicd2: the scan/index pipeline (scan.rs, index.rs,         *)
(* schema.rs), the ScanThread start/stop protocol (scan.rs), the           *)
(* connection server's per-connection state machine (server.rs), the       *)
(* streaming driver (stream_thread.rs), the audio execute loop             *)
(* (audio_stream.rs) and the blob cache (cache.rs).                        *)
(*                                                                         *)
(* The specifications of the module:                                       *)
(*   Spec            complete scans interleaved with filesystem changes    *)
(*   SpecThread      concurrent start()/stop() callers and scan workers    *)
(*   SpecStop        one caller that stops the scan at any point           *)
(*   SpecKind        complete scans, files replaced by directories between *)
(*   SpecGrain       Spec with files made within a directory's last second *)
(*   SpecServer      the I/O thread, the incoming worker, the application  *)
(*   SpecServerLive  SpecServer under fair scheduling of the threads       *)
(*   SpecStream      SpecServer's threads with the streaming driver        *)
(*   SpecStreamLive  SpecStream under fair scheduling of the threads       *)
(*   SpecCache       set_blob and get_blob calls on the cache              *)
(*   SpecAudio       the execute loop over every producer                  *)
(*   SpecAlbum       process_node_updates over catalogs of tagged tracks   *)
(*   SpecCue         the lengths of a cue FILE section's tracks            *)
(*   SpecLyrics      overlapping lyrics requests of the HTTP API           *)
(*   SpecQuery       HttpQuery::from over encoded and raw query strings    *)
(*   SpecCover       complete scans of a tree with a cover image file      *)
(*   SpecOpen        api_audio_stream's start and length for a track       *)
(*   SpecHangup      SpecServer's threads with peers that shut down        *)
(*   SpecHangupLive  SpecHangup under fair scheduling of the threads       *)
(*   SpecLocks       the mutexes of the server and the streaming driver    *)
(***************************************************************************)
EXTENDS Integers, Sequences, FiniteSets, TLC

(***************************************************************************)
(* Bounds of the model.                                                    *)
(***************************************************************************)
\* Filesystem changes (touch, delete, create) an execution of Spec may make.
MaxFsChanges == 1
\* Scan worker threads that may be alive at once (thread slots).
MaxWorkers == 2
\* Replacements of a file by a directory, or of a directory by a file, that
\* an execution of SpecKind may make on top of the other changes.
MaxRetypes == 1
\* Files that may appear within the second of their directory's last write,
\* on top of the other changes of an execution of SpecGrain.
MaxAppear == 1
\* Tracks of the catalogs process_node_updates is given in SpecAlbum.
MaxAlbumTracks == 3
\* Tracks of the FILE section whose lengths are calculated in SpecCue.
MaxCueTracks == 3
\* Bits of the significand of the model's binary floating-point numbers (an
\* f64 has 53), and the binary places of its least positive number.
PrecisionBits == 8
FracBits == 14

(***************************************************************************)
(* Option values.                                                          *)
(***************************************************************************)
\* Option::None of a row id (AUTOINCREMENT ids start at 1).
None == 0
\* Track.start IS NULL (a start of 0 seconds is a value).
NoStart == -1

(***************************************************************************)
(* The filesystem: a fixed universe of paths under one root, each present  *)
(* or absent, with a modified time.  Contents are fixtures: one cue sheet  *)
(* that references its sibling, and two tagged audio files that carry the  *)
(* same album name in two directories.                                     *)
(***************************************************************************)
Roots == << [name |-> "music", path |-> <<"/srv/music">>] >>

FsRoot == <<"/srv/music">>
FsDirA == <<"/srv/music", "A">>
FsCueA == <<"/srv/music", "A", "disc.cue">>
FsFlacA == <<"/srv/music", "A", "disc.flac">>
FsDirB == <<"/srv/music", "B">>
FsFlacB == <<"/srv/music", "B", "01.flac">>
\* a cover image beside 01.flac, on disk in SpecCover alone
FsCoverB == <<"/srv/music", "B", "album.jpg">>

FsPaths == {FsRoot, FsDirA, FsCueA, FsFlacA, FsDirB, FsFlacB}
FsDirs == {FsRoot, FsDirA, FsDirB}
Mtimes == {1, 2}

FsParent(p) == SubSeq(p, 1, Len(p) - 1)
FsName(p) == p[Len(p)]

VARIABLES
    fs,          \* [FsPaths -> [present, mtime, kind]], in SpecCover with FsCoverB
    fsChanges,   \* filesystem changes made so far
    index,       \* the catalog database (index.db)
    stop,        \* ScanThread.stop (AtomicBool)
    join_handle, \* ScanThread.join_handle: None or the worker whose handle is stored
    lock,        \* owner of the join_handle mutex: None or a caller
    caller,      \* per caller of start()/stop(): its position in the call
    scan,        \* per worker slot: the scan worker thread's state
    hist,        \* observations of completed scans (history, not program state)
    clients,     \* ServerThread.clients: token -> connection, or None
    tokens,      \* ServerThread.tokens: the free tokens (a Vec, popped at the end)
    listeners,   \* ServerThread.listeners: the tokens of the listeners
    server_rx,   \* the channel of InternalCommand to the I/O thread
    incoming_rx, \* the channel of InternalIncomingEvent to the incoming worker
    streaming_rx,\* the channel of StreamingEvent: how many are unread
    client,      \* per connection: the InternalClient and its poll registration
    events,      \* the events of the poll the I/O thread is working through
    net,         \* per connection: the peer and the socket
    app,         \* per connection: what receive_next_fn handed out, the handles held
    env,         \* what the environment did so far, the worker's last parse, the last pop
    stream_thread, \* StreamThreadInner.audio_streams, and the driver's place in its pass
    cache,       \* the Cache table of cache.db, and the clock of strftime('%s','now')
    audio,       \* one AudioStream::execute task: its producer and its sink
    lyrics,      \* the TrackLyrics table and the api_track_lyrics calls under way
    query,       \* one HttpQuery::from call: its input, the build, its outcome
    sheet,       \* one FILE section of a cue sheet: its starts, the lengths given
    opening,     \* one api_audio_stream call: the track, the offset, what open() is given
    locks        \* the mutexes: their owners, and each thread's way through its call

scanVars == <<fs, fsChanges, index, stop, join_handle, lock, caller, scan, hist>>
serverVars == <<clients, tokens, listeners, server_rx, incoming_rx, streaming_rx,
                client, events, net, app, env>>
apiVars == <<lyrics, query, sheet, opening, locks>>
libVars == <<stream_thread, cache, audio, apiVars>>
vars == <<scanVars, serverVars, libVars>>

(***************************************************************************)
(* fs::metadata, fs::read_dir, the cue text and the media probe.           *)
(***************************************************************************)
\* what the fixture has at a path
NodeTypeOf(p) == IF p \in FsDirs THEN "Directory" ELSE "File"

\* fs::metadata(fs_path): Err for a missing path
Metadata(f, p) ==
    IF p \in DOMAIN f /\ f[p].present
    THEN [ok |-> TRUE, node_type |-> f[p].kind, modified |-> f[p].mtime]
    ELSE [ok |-> FALSE, node_type |-> "Other", modified |-> 0]

\* fs::read_dir(fs_path): the names of the entries
ReadDir(f, p) == {FsName(q) : q \in {r \in DOMAIN f : Len(r) > 1 /\ FsParent(r) = p /\ f[r].present}}

\* Path::extension, lower-cased: the text after the last dot of the file name
Extension(p) ==
    IF p \in {FsCueA} THEN "cue"
    ELSE IF p \in {FsFlacA, FsFlacB} THEN "flac"
    ELSE IF p = FsCoverB THEN "jpg"
    ELSE ""

\* cue::parse_cue(read_to_string(fs_path))
ParseCue(p) ==
    IF p = FsCueA
    THEN [title |-> "D", performer |-> "P",
          files |-> << [path |-> "disc.flac",
                        tracks |-> << [number |-> 1, title |-> "a", performer |-> "P", start |-> 0],
                                      [number |-> 2, title |-> "b", performer |-> "P", start |-> 90] >>] >>]
    ELSE [title |-> "", performer |-> "", files |-> <<>>]

\* media::media_info_from_path(fs_path): None, or (tracks, images)
MediaInfo(p) ==
    IF p = FsFlacA
    THEN [some |-> TRUE,
          tracks |-> << [stream_index |-> 0, track_index |-> 0, number |-> 1, title |-> "T0",
                         artist_name |-> "X", album_name |-> "Y",
                         album_artist_name |-> "", has_album_artist |-> FALSE, length |-> 600] >>,
          images |-> <<>>]
    ELSE IF p = FsFlacB
    THEN [some |-> TRUE,
          tracks |-> << [stream_index |-> 0, track_index |-> 0, number |-> 1, title |-> "T1",
                         artist_name |-> "X", album_name |-> "Y",
                         album_artist_name |-> "", has_album_artist |-> FALSE, length |-> 180] >>,
          images |-> << [stream_index |-> 1, description |-> "front", width |-> 800, height |-> 800] >>]
    ELSE [some |-> FALSE, tracks |-> <<>>, images |-> <<>>]

\* media_info_from_path of what prepare_node found at the path: a directory
\* is no media file, the probe returns null
MediaInfoOf(node_type, p) ==
    IF node_type = "File" THEN MediaInfo(p)
    ELSE [some |-> FALSE, tracks |-> <<>>, images |-> <<>>]

(***************************************************************************)
(* The catalog (index.rs over schema.rs).  A table is a set of rows; the   *)
(* AUTOINCREMENT counters never reuse an id.                               *)
(***************************************************************************)
NoNode == [node_id |-> None, node_type |-> "Other", parent_id |-> None, master_id |-> None,
           name |-> "", path |-> <<>>, modified |-> 0]

EmptyIndex ==
    [nodes |-> {}, tracks |-> {}, images |-> {}, artists |-> {}, albums |-> {},
     album_images |-> {}, patterns |-> <<>>,
     next |-> [node |-> 1, track |-> 1, image |-> 1, artist |-> 1, album |-> 1],
     writes |-> {}, updates |-> {}, last_call |-> [name |-> "", node_id |-> None],
     last_find |-> [node_id |-> None, name |-> "", album_id |-> None, album_name |-> "",
                    same_dir |-> FALSE, unused |-> FALSE]]

MinOf(S) == CHOOSE x \in S : \A y \in S : x <= y

\* Index::node
NodeById(db, id) == CHOOSE n \in db.nodes : n.node_id = id

\* Index::node_by_name: the first row with that parent and name, or NoNode
NodeByName(db, parent_id, name) ==
    LET rows == {n \in db.nodes : n.name = name /\ n.parent_id = parent_id}
    IN IF rows = {} THEN NoNode
       ELSE CHOOSE n \in rows : n.node_id = MinOf({m.node_id : m \in rows})

RECURSIVE SortedNodes(_)
SortedNodes(rows) ==
    IF rows = {} THEN <<>>
    ELSE LET first == CHOOSE n \in rows : n.node_id = MinOf({m.node_id : m \in rows})
         IN <<first>> \o SortedNodes(rows \ {first})

\* Index::nodes_by_parent: the rows under a parent, in rowid order (the order
\* of the Node_parent_id index)
NodesByParent(db, parent_id) == SortedNodes({n \in db.nodes : n.parent_id = parent_id})

\* Index::create_node: INSERT, then read the row back
CreateNode(db, node) ==
    LET row == [node EXCEPT !.node_id = db.next.node]
    IN [db |-> [db EXCEPT !.nodes = @ \cup {row}, !.next.node = @ + 1], node |-> row]

\* the rows removed when Image rows are deleted: AlbumImage ON DELETE CASCADE,
\* Album.image_id ON DELETE SET NULL
DeleteImages(db, gone) ==
    LET ids == {i.image_id : i \in gone}
    IN [db EXCEPT !.images = @ \ gone,
                  !.album_images = {ai \in @ : ai.image_id \notin ids},
                  !.albums = {IF a.image_id \in ids THEN [a EXCEPT !.image_id = None] ELSE a : a \in @}]

RECURSIVE Descendants(_, _)
\* Node.parent_id ON DELETE CASCADE: the ids deleted with the ids of S
Descendants(db, S) ==
    LET more == {n.node_id : n \in {m \in db.nodes : m.parent_id \in S}}
    IN IF more \subseteq S THEN S ELSE Descendants(db, S \cup more)

\* delete_node that deletes nothing
DeleteNodeKept(db, node_id) == db

\* Index::delete_node, with the schema's foreign-key actions
DeleteNode(db, node_id) ==
    IF node_id \notin {n.node_id : n \in db.nodes} THEN db
    ELSE LET gone == Descendants(db, {node_id})
             db1 == [db EXCEPT
                       !.nodes = {IF n.master_id \in gone THEN [n EXCEPT !.master_id = None] ELSE n
                                    : n \in {m \in @ : m.node_id \notin gone}},
                       !.tracks = {t \in @ : t.node_id \notin gone}]
         IN DeleteImages(db1, {i \in db.images : i.node_id \in gone})

\* set_node_modified that reports the write and stores nothing
SetNodeModifiedLost(db, node_id, modified) == [db EXCEPT !.writes = @ \cup {node_id}]

\* Index::set_node_modified (the write is logged in writes, the call in
\* last_call)
SetNodeModified(db, node_id, modified) ==
    [db EXCEPT !.nodes = {IF n.node_id = node_id THEN [n EXCEPT !.modified = modified] ELSE n : n \in @},
               !.writes = @ \cup {node_id},
               !.last_call = [name |-> "set_node_modified", node_id |-> node_id]]

\* Index::set_node_master
SetNodeMaster(db, node_id, master_id) ==
    [db EXCEPT !.nodes = {IF n.node_id = node_id THEN [n EXCEPT !.master_id = master_id] ELSE n : n \in @}]

\* Index::clear_node: the node's tracks and images, not the node
ClearNode(db, node_id) ==
    DeleteImages([db EXCEPT !.tracks = {t \in @ : t.node_id # node_id}],
                 {i \in db.images : i.node_id = node_id})

\* Index::artist_by_name: the first row of that name, or None
ArtistByName(db, name) ==
    LET ids == {a.artist_id : a \in {b \in db.artists : b.name = name}}
    IN IF ids = {} THEN None ELSE MinOf(ids)

\* create_artist that returns an id and stores no row
CreateArtistLost(db, name) ==
    [db |-> [db EXCEPT !.next.artist = @ + 1], artist_id |-> db.next.artist]

\* Index::create_artist
CreateArtist(db, name) ==
    [db |-> [db EXCEPT !.artists = @ \cup {[artist_id |-> db.next.artist, name |-> name]},
                       !.next.artist = @ + 1],
     artist_id |-> db.next.artist]

\* Index::create_album
CreateAlbum(db, name) ==
    [db |-> [db EXCEPT !.albums = @ \cup {[album_id |-> db.next.album, name |-> name,
                                           artist_id |-> None, artist_name |-> "",
                                           has_artist |-> FALSE, image_id |-> None]},
                       !.next.album = @ + 1],
     album_id |-> db.next.album]

\* Index::create_track
CreateTrack(db, track) ==
    [db EXCEPT !.tracks = @ \cup {[track EXCEPT !.track_id = db.next.track]},
               !.next.track = @ + 1]

\* Index::create_image
CreateImage(db, image) ==
    [db EXCEPT !.images = @ \cup {[image EXCEPT !.image_id = db.next.image]},
               !.next.image = @ + 1]

\* Index::find_album.  The first query joins Node AS other_node ON
\* node.parent_id = node.parent_id, a condition on the track's own node alone:
\* it holds for every other_node when that node has a parent.
FindAlbum(db, track_node_id, album_name) ==
    LET named == {a \in db.albums : a.name = album_name}
        joined == IF \E n \in db.nodes : n.node_id = track_node_id /\ n.parent_id # None
                  THEN {a \in named : \E t \in db.tracks : \E other \in db.nodes :
                            t.node_id = other.node_id /\ t.album_id = a.album_id}
                  ELSE {}
        unused == {a \in named : \A t \in db.tracks : t.album_id # a.album_id}
    IN IF joined # {} THEN MinOf({a.album_id : a \in joined})
       ELSE IF unused # {} THEN MinOf({a.album_id : a \in unused})
       ELSE None

\* What a find_album call was asked and what it returned: whether the album
\* returned had, at the call, a track in the directory of the track's node, and
\* whether it had no track at all.
LogFind(db, track_node_id, album_name, album_id) ==
    LET dir == {n.parent_id : n \in {m \in db.nodes : m.node_id = track_node_id}}
        holders == {t.node_id : t \in {u \in db.tracks : u.album_id = album_id}}
    IN [db EXCEPT !.last_find =
          [node_id |-> track_node_id, name |-> album_name, album_id |-> album_id,
           album_name |-> IF album_id = None THEN ""
                          ELSE (CHOOSE a \in db.albums : a.album_id = album_id).name,
           same_dir |-> \E n \in db.nodes : n.node_id \in holders /\ n.parent_id \in dir,
           unused |-> holders = {}]]

(***************************************************************************)
(* Index::process_node_updates.                                            *)
(***************************************************************************)
Chars == <<"a", "b", "c", "d", "e", "f", "g", "j", "k", "l", "m", "n", "o", "r", "t", "u", "v", " ", "%">>

\* scan_core's seed rows of AlbumImagePattern, in rowid order
SeedPatterns ==
    << <<"a","l","b","u","m"," ","c","o","v","e","r">>,
       <<"a","l","b","u","m","c","o","v","e","r">>,
       <<"a","l","b","u","m","a","r","t">>,
       <<"a","l","b","u","m">>,
       <<"f","r","o","n","t">>,
       <<"f","o","l","d","e","r">>,
       <<"f","r","o","n","t","%">>,
       <<"c","o","v","e","r","%">>,
       <<"f","o","l","d","e","r","%">>,
       <<"%","f","r","o","n","t","%">>,
       <<"%","c","o","v","e","r","%">>,
       <<"%","f","o","l","d","e","r","%">>,
       <<"%","a","l","b","u","m","a","r","t","%">>,
       <<"%","a","l","b","u","m","%">>,
       <<"%","j","a","c","k","e","t","%">>,
       <<"%","c","a","r","d","%">> >>

\* the description column of the fixtures' images, as characters
DescriptionChars(d) ==
    IF d = "front" THEN <<"f","r","o","n","t">>
    ELSE IF d = "album" THEN <<"a","l","b","u","m">>
    ELSE <<>>

RECURSIVE Like(_, _)
\* SQL LIKE with the % wildcard
Like(s, p) ==
    IF p = <<>> THEN s = <<>>
    ELSE IF Head(p) = "%" THEN Like(s, Tail(p)) \/ (s # <<>> /\ Like(Tail(s), p))
    ELSE s # <<>> /\ Head(s) = Head(p) /\ Like(Tail(s), Tail(p))

CharRank(c) == CHOOSE i \in 1..Len(Chars) : Chars[i] = c

RECURSIVE TextLeq(_, _)
\* ORDER BY description ASC
TextLeq(s, t) ==
    IF s = <<>> THEN TRUE
    ELSE IF t = <<>> THEN FALSE
    ELSE IF Head(s) # Head(t) THEN CharRank(Head(s)) < CharRank(Head(t))
    ELSE TextLeq(Tail(s), Tail(t))

\* the albums with a track on a node directly under node_id
AffectedAlbums(db, node_id) ==
    {t.album_id : t \in {u \in db.tracks :
        \E n \in db.nodes : n.node_id = u.node_id /\ n.parent_id = node_id}}

\* The first statement's scalar subquery for one album: the UNION of the
\* album_artist groups and of one (artist_id, artist_name) row per group, the
\* NULL ids dropped, first row in the UNION's (sorted) order.  reps holds the
\* row a group's bare columns are read from, one track per group.
AlbumArtist(db, album_id, reps) ==
    LET mine == {t \in db.tracks : t.album_id = album_id}
        rows == {[id |-> t.album_artist_id, name |-> t.album_artist_name] : t \in mine}
                \cup {[id |-> t.artist_id, name |-> t.artist_name] : t \in reps \cap mine}
        kept == {r \in rows : r.id # None}
    IN IF kept = {} THEN [id |-> None, name |-> "", some |-> FALSE]
       ELSE LET r == CHOOSE x \in kept : x.id = MinOf({y.id : y \in kept})
            IN [id |-> r.id, name |-> r.name, some |-> TRUE]

\* the choices of one track per GROUP BY (album_artist_id, album_artist_name)
\* group of each album
GroupReps(db) ==
    {R \in SUBSET db.tracks :
        \A t \in db.tracks :
            Cardinality({u \in R : u.album_id = t.album_id
                                   /\ u.album_artist_id = t.album_artist_id
                                   /\ u.album_artist_name = t.album_artist_name}) = 1}

\* the second statement: INSERT OR IGNORE INTO AlbumImage
EnrolImages(db, node_id) ==
    LET children == {n.node_id : n \in {m \in db.nodes : m.parent_id = node_id}}
        hasTracks(d) == \E t \in db.tracks : \E n \in db.nodes :
                            n.node_id = t.node_id /\ n.parent_id = d
        iter == {node_id} \cup {c \in children : ~hasTracks(c)}
        imgs == {i \in db.images : \E n \in db.nodes : n.node_id = i.node_id /\ n.parent_id \in iter}
        albs == AffectedAlbums(db, node_id) \cap {a.album_id : a \in db.albums}
    IN [db EXCEPT !.album_images = @ \cup {[album_id |-> a, image_id |-> i.image_id] : a \in albs, i \in imgs}]

\* rowid of the first pattern the description is LIKE, or None
PatternRank(db, desc) ==
    LET hits == {k \in 1..Len(db.patterns) : Like(DescriptionChars(desc), db.patterns[k])}
    IN IF hits = {} THEN None ELSE MinOf(hits)

\* the third statement's scalar subquery: the album's first candidate, matched
\* descriptions first, by pattern rowid, then by description
BestImage(db, album_id) ==
    LET cands == {i \in db.images : [album_id |-> album_id, image_id |-> i.image_id] \in db.album_images}
        before(i, j) ==
            LET ri == PatternRank(db, i.description)
                rj == PatternRank(db, j.description)
            IN IF (ri = None) # (rj = None) THEN rj = None
               ELSE IF ri # rj THEN ri < rj
               ELSE IF i.description # j.description
                    THEN TextLeq(DescriptionChars(i.description), DescriptionChars(j.description))
               ELSE i.image_id <= j.image_id
    IN IF cands = {} THEN None
       ELSE (CHOOSE i \in cands : \A j \in cands : before(i, j)).image_id

\* a first statement that updates no row
SetAlbumArtistsKept(db, node_id, reps) == db

\* the first statement: UPDATE Album SET (artist_id, artist_name)
SetAlbumArtists(db, node_id, reps) ==
    [db EXCEPT !.albums =
        {IF a.album_id \in AffectedAlbums(db, node_id)
         THEN [a EXCEPT !.artist_id = AlbumArtist(db, a.album_id, reps).id,
                        !.artist_name = AlbumArtist(db, a.album_id, reps).name,
                        !.has_artist = AlbumArtist(db, a.album_id, reps).some]
         ELSE a : a \in @}]

\* the third statement: UPDATE Album SET image_id
SetAlbumImages(db, node_id) ==
    [db EXCEPT !.albums =
        {IF a.album_id \in AffectedAlbums(db, node_id)
         THEN [a EXCEPT !.image_id = BestImage(db, a.album_id)]
         ELSE a : a \in @}]

\* Index::process_node_updates (the call is logged in updates and last_call)
ProcessNodeUpdates(db, node_id, reps) ==
    [SetAlbumImages(EnrolImages(SetAlbumArtists(db, node_id, reps), node_id), node_id)
        EXCEPT !.updates = @ \cup {node_id},
               !.last_call = [name |-> "process_node_updates", node_id |-> node_id]]

(***************************************************************************)
(* The scan (scan.rs).  The handlers are operators from a catalog to a     *)
(* catalog; a result of Option<ScanStat> is [some, tracks, images].        *)
(***************************************************************************)
NoStat == [some |-> FALSE, tracks |-> 0, images |-> 0]
ZeroStat == [some |-> TRUE, tracks |-> 0, images |-> 0]

\* ScanStat::add
StatAdd(a, b) == [a EXCEPT !.tracks = @ + b.tracks, !.images = @ + b.images]

\* ScanStat::changed
StatChanged(a) == a.tracks > 0 \/ a.images > 0

\* Index::map_fs_path: the root's path in place of the root's name
MapFsPath(path) ==
    IF path = <<>> \/ \A k \in 1..Len(Roots) : Roots[k].name # Head(path)
    THEN [some |-> FALSE, path |-> <<>>]
    ELSE LET k == MinOf({j \in 1..Len(Roots) : Roots[j].name = Head(path)})
         IN [some |-> TRUE, path |-> Roots[k].path \o Tail(path)]

NodeArgNode(node) == [is_node |-> TRUE, node |-> node, name |-> node.name]
NodeArgName(name) == [is_node |-> FALSE, node |-> NoNode, name |-> name]

\* Scan::prepare_node: the row for (parent, name) or for the row given, the
\* stat of its path; the row is deleted when the stat fails, deleted and made
\* anew when its kind changed, created when there is none.
PrepareNode(db, f, parent, node_arg) ==
    LET parent_id == parent.node_id
        name == node_arg.name
        path == IF node_arg.is_node THEN node_arg.node.path ELSE parent.path \o <<name>>
        mapped == MapFsPath(path)
        found == IF node_arg.is_node THEN node_arg.node ELSE NodeByName(db, parent_id, name)
        metadata == Metadata(f, mapped.path)
        failed(d) == [ok |-> FALSE, db |-> d, node |-> NoNode, fs_path |-> mapped.path, modified |-> 0]
    IN IF ~mapped.some THEN failed(db)
       ELSE IF ~metadata.ok
       THEN failed(IF found # NoNode THEN DeleteNode(db, found.node_id) ELSE db)
       ELSE LET recreate == found # NoNode /\ found.node_type # metadata.node_type
                db1 == IF recreate THEN DeleteNode(db, found.node_id) ELSE db
                made == CreateNode(db1, [node_id |-> 0, node_type |-> metadata.node_type,
                                         parent_id |-> parent_id, master_id |-> None,
                                         name |-> name, path |-> path, modified |-> 0])
            IN IF found = NoNode \/ recreate
               THEN [ok |-> TRUE, db |-> made.db, node |-> made.node,
                     fs_path |-> mapped.path, modified |-> metadata.modified]
               ELSE [ok |-> TRUE, db |-> db1, node |-> found,
                     fs_path |-> mapped.path, modified |-> metadata.modified]

\* one round of the handlers' loop over tracks: resolve the artist, the album
\* (find_album on the track's node, else a new album) and the album artist by
\* name, then insert the track
ResolveAndCreate(db, track) ==
    LET a0 == ArtistByName(db, track.artist_name)
        ra == IF a0 # None THEN [db |-> db, artist_id |-> a0] ELSE CreateArtist(db, track.artist_name)
        f0 == FindAlbum(ra.db, track.node_id, track.album_name)
        db1 == LogFind(ra.db, track.node_id, track.album_name, f0)
        rb == IF f0 # None THEN [db |-> db1, album_id |-> f0] ELSE CreateAlbum(db1, track.album_name)
        c0 == ArtistByName(rb.db, track.album_artist_name)
        rc == IF ~track.has_album_artist THEN [db |-> rb.db, artist_id |-> None]
              ELSE IF c0 # None THEN [db |-> rb.db, artist_id |-> c0]
              ELSE CreateArtist(rb.db, track.album_artist_name)
    IN CreateTrack(rc.db, [track EXCEPT !.artist_id = ra.artist_id,
                                        !.album_id = rb.album_id,
                                        !.album_artist_id = rc.artist_id])

RECURSIVE InsertTracks(_, _, _)
InsertTracks(db, tracks, i) ==
    IF i > Len(tracks) THEN db
    ELSE InsertTracks(ResolveAndCreate(db, tracks[i]), tracks, i + 1)

\* the cue handler's virtual tracks of one FILE section; the lengths are
\* computed from the last track back, the master's length bounding the last
CueTracks(cue, file, file_node_id, file_track) ==
    [i \in 1..Len(file.tracks) |->
        [track_id |-> 0, node_id |-> file_node_id,
         stream_index |-> file_track.stream_index, track_index |-> file_track.track_index,
         start |-> file.tracks[i].start, number |-> file.tracks[i].number,
         title |-> file.tracks[i].title,
         artist_id |-> 0, artist_name |-> file.tracks[i].performer,
         album_id |-> 0, album_name |-> cue.title,
         album_artist_id |-> None, album_artist_name |-> cue.performer,
         has_album_artist |-> cue.performer # "",
         length |-> (IF i = Len(file.tracks) THEN file_track.length ELSE file.tracks[i + 1].start)
                    - file.tracks[i].start]]

\* try_process_cue_file, one FILE section (the body of the loop over cue.files)
\* the media probe and the track
\* rows, once prepare_node gave the FILE's node
CueFileNode(cue, file, node, file_node) ==
    IF ~file_node.ok THEN [db |-> file_node.db, tracks |-> 0]
    ELSE IF ~MediaInfoOf(file_node.node.node_type, file_node.fs_path).some
            \/ MediaInfoOf(file_node.node.node_type, file_node.fs_path).tracks = <<>>
    THEN [db |-> file_node.db, tracks |-> 0]
    ELSE [db |-> SetNodeModified(
                   SetNodeMaster(
                     InsertTracks(ClearNode(file_node.db, file_node.node.node_id),
                                  CueTracks(cue, file, file_node.node.node_id,
                                            MediaInfo(file_node.fs_path).tracks[1]),
                                  1),
                     file_node.node.node_id, node.node_id),
                   file_node.node.node_id, file_node.modified),
          tracks |-> Len(file.tracks)]

CueFile(db, f, cue, file, parent, node) ==
    IF file.tracks = <<>> THEN [db |-> db, tracks |-> 0]
    ELSE CueFileNode(cue, file, node, PrepareNode(db, f, parent, NodeArgName(file.path)))

\* stat.tracks += tracks.len()
CueFileSum(r, s) == [db |-> s.db, tracks |-> r.tracks + s.tracks]

RECURSIVE CueFiles(_, _, _, _, _, _)
\* the loop over cue.files
CueFiles(r, f, cue, i, parent, node) ==
    IF i > Len(cue.files) THEN [db |-> r.db, stat |-> [ZeroStat EXCEPT !.tracks = r.tracks]]
    ELSE CueFiles(CueFileSum(r, CueFile(r.db, f, cue, cue.files[i], parent, node)),
                  f, cue, i + 1, parent, node)

\* Scan::try_process_cue_file
TryProcessCueFile(db, f, extension, parent, node, fs_path) ==
    LET cue == ParseCue(fs_path)
    IN IF extension # "cue" \/ cue.files = <<>> THEN [db |-> db, stat |-> NoStat]
       ELSE CueFiles([db |-> db, tracks |-> 0], f, cue, 1, parent, node)

ImageExtensions == {"jpg", "jpeg", "png", "gif", "webp", "tif", "tiff", "tga", "bmp", "ico",
                    "hdr", "pbm", "pam", "ppm", "pgm"}

\* image::image_dimensions(fs_path): the cover is the fixtures' one image file
ImageDimensions(p) ==
    IF p = FsCoverB THEN [some |-> TRUE, width |-> 500, height |-> 500]
    ELSE [some |-> FALSE, width |-> 0, height |-> 0]

\* Path::file_stem of the node's name: the name up to its last dot
FileStem(name) ==
    IF name = "album.jpg" THEN "album"
    ELSE IF name = "disc.cue" \/ name = "disc.flac" THEN "disc"
    ELSE IF name = "01.flac" THEN "01"
    ELSE name

\* Scan::try_process_image_file
TryProcessImageFile(db, extension, node, fs_path) ==
    LET dimensions == ImageDimensions(fs_path)
    IN IF extension \notin ImageExtensions \/ ~dimensions.some THEN [db |-> db, stat |-> NoStat]
       ELSE [db |-> CreateImage(db, [image_id |-> 0, node_id |-> node.node_id, stream_index |-> None,
                                     description |-> FileStem(node.name),
                                     width |-> dimensions.width, height |-> dimensions.height]),
             stat |-> [some |-> TRUE, tracks |-> 0, images |-> 1]]

RECURSIVE InsertImages(_, _, _, _)
InsertImages(db, images, i, node_id) ==
    IF i > Len(images) THEN db
    ELSE InsertImages(CreateImage(db, [image_id |-> 0, node_id |-> node_id,
                                       stream_index |-> images[i].stream_index,
                                       description |-> images[i].description,
                                       width |-> images[i].width, height |-> images[i].height]),
                      images, i + 1, node_id)

\* Scan::try_process_audio_file
TryProcessAudioFile(db, node, fs_path) ==
    LET media == MediaInfo(fs_path)
        tracks == [i \in 1..Len(media.tracks) |->
                      [track_id |-> 0, node_id |-> node.node_id,
                       stream_index |-> media.tracks[i].stream_index,
                       track_index |-> media.tracks[i].track_index,
                       start |-> NoStart, number |-> media.tracks[i].number,
                       title |-> media.tracks[i].title,
                       artist_id |-> 0, artist_name |-> media.tracks[i].artist_name,
                       album_id |-> 0, album_name |-> media.tracks[i].album_name,
                       album_artist_id |-> None,
                       album_artist_name |-> media.tracks[i].album_artist_name,
                       has_album_artist |-> media.tracks[i].has_album_artist,
                       length |-> media.tracks[i].length]]
    IN IF ~media.some THEN [db |-> db, stat |-> NoStat]
       ELSE [db |-> InsertImages(InsertTracks(db, tracks, 1), media.images, 1, node.node_id),
             stat |-> [some |-> TRUE, tracks |-> Len(media.tracks), images |-> Len(media.images)]]

\* process_file_node after the image handler: its result, or the audio handler's
OrAudio(image, node, fs_path) ==
    IF image.stat.some THEN image ELSE TryProcessAudioFile(image.db, node, fs_path)

\* process_file_node after the cue handler: its result, or the image handler's
OrImage(cue, node, fs_path) ==
    IF cue.stat.some THEN cue
    ELSE OrAudio(TryProcessImageFile(cue.db, Extension(fs_path), node, fs_path), node, fs_path)

\* Scan::process_file_node: dispatch on the extension
ProcessFileNode(db, f, parent, node, fs_path) ==
    IF Extension(fs_path) = "" THEN [db |-> db, stat |-> NoStat]
    ELSE OrImage(TryProcessCueFile(db, f, Extension(fs_path), parent, node, fs_path), node, fs_path)

\* scan_node after process_file_node: the new modified time
Processed(r, node, modified) ==
    [ok |-> TRUE, db |-> SetNodeModified(r.db, node.node_id, modified), stat |-> r.stat]

\* Scan::scan_node for a node that is no directory: a file whose modified time
\* differs is cleared and processed unless it has a master; the new modified
\* time is written last.  ok is FALSE for Err.
ScanFileNode(db, f, parent, node, fs_path, modified) ==
    IF node.modified = modified THEN [ok |-> TRUE, db |-> db, stat |-> NoStat]
    ELSE IF node.node_type = "File" /\ parent = NoNode
    THEN [ok |-> FALSE, db |-> db, stat |-> NoStat]
    ELSE IF node.node_type = "File" /\ node.master_id = None
    THEN Processed(ProcessFileNode(ClearNode(db, node.node_id), f, parent, node, fs_path),
                   node, modified)
    ELSE [ok |-> TRUE, db |-> SetNodeModified(db, node.node_id, modified), stat |-> NoStat]

(***************************************************************************)
(* The scan worker thread: scan_core, and process_directory_node as a      *)
(* stack of directory frames.  One step is one unit of work: the start,    *)
(* one root, one catalog-known child, one new directory entry, the end of  *)
(* one directory.                                                          *)
(***************************************************************************)
Workers == 1..MaxWorkers
Callers == {"c1", "c2"}
NoCaller == "none"

IdleWorker ==
    [st |-> "none", pc |-> "begin", roots |-> <<>>, stack |-> <<>>, stat |-> ZeroStat,
     stop_detected |-> FALSE, last |-> "none", last_stop |-> FALSE]

Top(w) == scan[w].stack[Len(scan[w].stack)]

\* the catalog without the modified times and without the counters and logs
Catalog(db) ==
    [nodes |-> {[node_id |-> n.node_id, node_type |-> n.node_type, parent_id |-> n.parent_id,
                 master_id |-> n.master_id, name |-> n.name, path |-> n.path] : n \in db.nodes},
     tracks |-> db.tracks, images |-> db.images, artists |-> db.artists,
     albums |-> db.albums, album_images |-> db.album_images]

\* process_directory_node that reads the entries of every directory
DirFrameRead(db, f, node, fs_path, modified) ==
    [node |-> node, fs_path |-> fs_path, modified |-> modified,
     fs_entries |-> ReadDir(f, fs_path),
     index_nodes |-> NodesByParent(db, node.node_id),
     stat |-> ZeroStat, base |-> Catalog(db)]

\* process_directory_node up to its loops: the entries of a modified
\* directory, the catalog's children (base is history: the catalog then)
DirFrame(db, f, node, fs_path, modified) ==
    [node |-> node, fs_path |-> fs_path, modified |-> modified,
     fs_entries |-> IF node.modified # modified THEN ReadDir(f, fs_path) ELSE {},
     index_nodes |-> NodesByParent(db, node.node_id),
     stat |-> ZeroStat, base |-> Catalog(db)]

\* prepare_node and scan_node of one node: a directory opens a frame, any
\* other node is scanned at once
Scanned(r) ==
    [db |-> r.db, push |-> FALSE, frame |-> <<>>, stat |-> IF r.ok THEN r.stat ELSE NoStat]

Prepared(f, parent, p) ==
    IF ~p.ok THEN [db |-> p.db, push |-> FALSE, frame |-> <<>>, stat |-> NoStat]
    ELSE IF p.node.node_type = "Directory"
    THEN [db |-> p.db, push |-> TRUE,
          frame |-> <<DirFrame(p.db, f, p.node, p.fs_path, p.modified)>>, stat |-> NoStat]
    ELSE Scanned(ScanFileNode(p.db, f, parent, p.node, p.fs_path, p.modified))

Enter(db, f, parent, node_arg) == Prepared(f, parent, PrepareNode(db, f, parent, node_arg))

\* the stack after a child was entered: the frame's loops advanced, the
\* child's stat added, the child's frame pushed
Entered(stack, frame, e) ==
    LET k == Len(stack)
        f1 == IF e.stat.some THEN [frame EXCEPT !.stat = StatAdd(@, e.stat)] ELSE frame
    IN IF k = 0 THEN e.frame ELSE [stack EXCEPT ![k] = f1] \o e.frame

\* scan_core up to the loop over the roots: the seed patterns
CoreBegin(w) ==
    /\ scan[w].st = "running" /\ scan[w].pc = "begin"
    /\ index' = [index EXCEPT !.patterns = SeedPatterns, !.writes = {}, !.updates = {},
                              !.last_call = EmptyIndex.last_call]
    /\ scan' = [scan EXCEPT ![w].pc = "roots", ![w].roots = Roots, ![w].last = "begin",
                            ![w].last_stop = stop]
    /\ UNCHANGED <<serverVars, libVars, fs, fsChanges, stop, join_handle, lock, caller, hist>>

\* the loop over the roots, one root that is not interrupted
RootNext(w) ==
    /\ scan[w].st = "running" /\ scan[w].pc = "roots" /\ scan[w].stack = <<>>
    /\ scan[w].roots # <<>> /\ ~stop
    /\ LET e == Enter(index, fs, NoNode, NodeArgName(Head(scan[w].roots).name))
       IN /\ index' = e.db
          /\ scan' = [scan EXCEPT ![w].roots = Tail(@), ![w].stack = e.frame,
                                  ![w].stat = IF e.stat.some THEN StatAdd(@, e.stat) ELSE @,
                                  ![w].last = "root", ![w].last_stop = stop]
    /\ UNCHANGED <<serverVars, libVars, fs, fsChanges, stop, join_handle, lock, caller, hist>>

\* the first loop of process_directory_node, one catalog-known child
KnownChild(w) ==
    /\ scan[w].st = "running" /\ scan[w].stack # <<>> /\ Top(w).index_nodes # <<>>
    /\ LET top == Top(w)
           index_node == Head(top.index_nodes)
           e == Enter(index, fs, top.node, NodeArgNode(index_node))
           f1 == [top EXCEPT !.index_nodes = Tail(@), !.fs_entries = @ \ {index_node.name}]
       IN /\ index' = e.db
          /\ scan' = [scan EXCEPT ![w].stack = Entered(@, f1, e),
                                  ![w].last = "known", ![w].last_stop = stop]
    /\ UNCHANGED <<serverVars, libVars, fs, fsChanges, stop, join_handle, lock, caller, hist>>

\* the second loop of process_directory_node, one new entry in the order
\* read_dir gave, when the scan is not interrupted
NewEntry(w) ==
    /\ scan[w].st = "running" /\ scan[w].stack # <<>> /\ Top(w).index_nodes = <<>>
    /\ ~stop
    /\ \E entry \in Top(w).fs_entries :
         LET top == Top(w)
             e == Enter(index, fs, top.node, NodeArgName(entry))
             f1 == [top EXCEPT !.fs_entries = @ \ {entry}]
         IN /\ index' = e.db
            /\ scan' = [scan EXCEPT ![w].stack = Entered(@, f1, e),
                                    ![w].last = "new", ![w].last_stop = stop]
    /\ UNCHANGED <<serverVars, libVars, fs, fsChanges, stop, join_handle, lock, caller, hist>>

\* scan_node that writes the directory's new modified time before it runs
\* process_node_updates
DirDoneWriteFirst(w) ==
    /\ scan[w].st = "running" /\ scan[w].stack # <<>> /\ Top(w).index_nodes = <<>>
    /\ Top(w).fs_entries = {} \/ stop
    /\ \E reps \in GroupReps(index) :
         LET top == Top(w)
             k == Len(scan[w].stack)
             db1 == IF top.node.modified # top.modified
                    THEN SetNodeModified(index, top.node.node_id, top.modified) ELSE index
             db2 == IF StatChanged(top.stat) THEN ProcessNodeUpdates(db1, top.node.node_id, reps)
                    ELSE db1
             rest == SubSeq(scan[w].stack, 1, k - 1)
         IN /\ index' = db2
            /\ scan' = [scan EXCEPT
                  ![w].stack = IF k = 1 THEN <<>>
                               ELSE [rest EXCEPT ![k - 1].stat = StatAdd(@, top.stat)],
                  ![w].stat = IF k = 1 THEN StatAdd(@, top.stat) ELSE @,
                  ![w].stop_detected = @ \/ (Top(w).fs_entries # {} /\ stop),
                  ![w].last = "dir_done", ![w].last_stop = stop]
    /\ UNCHANGED <<serverVars, libVars, fs, fsChanges, stop, join_handle, lock, caller, hist>>

\* process_directory_node returns (its loops are over, or the second loop is
\* interrupted) and scan_node goes on: process_node_updates when a child
\* changed, then the directory's new modified time
DirDone(w) ==
    /\ scan[w].st = "running" /\ scan[w].stack # <<>> /\ Top(w).index_nodes = <<>>
    /\ Top(w).fs_entries = {} \/ stop
    /\ \E reps \in GroupReps(index) :
         LET top == Top(w)
             k == Len(scan[w].stack)
             db1 == IF StatChanged(top.stat) THEN ProcessNodeUpdates(index, top.node.node_id, reps)
                    ELSE index
             db2 == IF top.node.modified # top.modified
                    THEN SetNodeModified(db1, top.node.node_id, top.modified) ELSE db1
             rest == SubSeq(scan[w].stack, 1, k - 1)
         IN /\ index' = db2
            /\ scan' = [scan EXCEPT
                  ![w].stack = IF k = 1 THEN <<>>
                               ELSE [rest EXCEPT ![k - 1].stat = StatAdd(@, top.stat)],
                  ![w].stat = IF k = 1 THEN StatAdd(@, top.stat) ELSE @,
                  ![w].stop_detected = @ \/ (Top(w).fs_entries # {} /\ stop),
                  ![w].last = "dir_done", ![w].last_stop = stop]
    /\ UNCHANGED <<serverVars, libVars, fs, fsChanges, stop, join_handle, lock, caller, hist>>

\* scan_core returns: the roots are done, or the loop over them is interrupted;
\* the thread ends.  A thread whose handle nobody holds is gone at once.
CoreReturn(w) ==
    /\ scan[w].st = "running" /\ scan[w].pc = "roots" /\ scan[w].stack = <<>>
    /\ scan[w].roots = <<>> \/ stop
    /\ LET held == join_handle = w \/ \E c \in Callers : caller[c].taken = w
           cut == scan[w].stop_detected \/ (scan[w].roots # <<>> /\ stop)
       IN /\ scan' = [scan EXCEPT ![w] = IF held THEN [@ EXCEPT !.st = "exited", !.stop_detected = cut,
                                                                !.last = "return", !.last_stop = stop]
                                         ELSE IdleWorker]
          /\ hist' = [hist EXCEPT !.clean = ~cut, !.repeat = hist.clean /\ ~cut,
                                  !.prev = hist.base, !.base = Catalog(index),
                                  !.writes = index.writes]
    /\ UNCHANGED <<serverVars, libVars, fs, fsChanges, index, stop, join_handle, lock, caller>>

WorkerStep(w) == CoreBegin(w) \/ RootNext(w) \/ KnownChild(w) \/ NewEntry(w) \/ DirDone(w) \/ CoreReturn(w)

(***************************************************************************)
(* ScanThread: start() and stop(), called by concurrent callers.  The      *)
(* join_handle mutex is taken twice by start(): once to look, once to      *)
(* spawn.                                                                  *)
(***************************************************************************)
IdleCaller == [pc |-> "idle", taken |-> None]

\* ScanThread::is_running
IsRunning == join_handle # None

FreeSlots == {w \in Workers : scan[w].st = "none"}

\* start(), the first block: the handle is looked at under the lock, and the
\* lock released; start() returns when a handle is stored
StartCheck(c) ==
    /\ caller[c].pc = "idle" /\ lock = NoCaller
    /\ caller' = [caller EXCEPT ![c].pc = IF IsRunning THEN "idle" ELSE "start_checked"]
    /\ UNCHANGED <<serverVars, libVars, fs, fsChanges, index, stop, join_handle, lock, scan, hist>>

\* start(), the rest: the lock again, the flag cleared, the thread spawned and
\* its handle stored over whatever is there (a handle dropped detaches its
\* thread)
StartSpawn(c) ==
    /\ caller[c].pc = "start_checked" /\ lock = NoCaller
    /\ FreeSlots # {}
    /\ LET w == MinOf(FreeSlots)
           old == join_handle
       IN /\ scan' = [v \in Workers |->
                        IF v = w THEN [IdleWorker EXCEPT !.st = "running"]
                        ELSE IF v = old /\ scan[v].st = "exited" THEN IdleWorker
                        ELSE scan[v]]
          /\ join_handle' = w
    /\ stop' = FALSE
    /\ caller' = [caller EXCEPT ![c].pc = "idle"]
    /\ UNCHANGED <<serverVars, libVars, fs, fsChanges, index, lock, hist>>

\* stop() up to the join: the lock, the flag set, the handle taken; without a
\* handle stop() returns
StopLock(c) ==
    /\ caller[c].pc = "idle" /\ lock = NoCaller
    /\ stop' = TRUE
    /\ join_handle' = None
    /\ IF join_handle = None
       THEN UNCHANGED <<caller, lock>>
       ELSE /\ caller' = [caller EXCEPT ![c].pc = "stop_join", ![c].taken = join_handle]
            /\ lock' = c
    /\ UNCHANGED <<serverVars, libVars, fs, fsChanges, index, scan, hist>>

\* stop(), handle.join(): blocks until the thread has ended; the lock is
\* released when stop() returns
StopJoin(c) ==
    /\ caller[c].pc = "stop_join"
    /\ scan[caller[c].taken].st = "exited"
    /\ scan' = [scan EXCEPT ![caller[c].taken] = IdleWorker]
    /\ lock' = NoCaller
    /\ caller' = [caller EXCEPT ![c].pc = "idle", ![c].taken = None]
    /\ UNCHANGED <<serverVars, libVars, fs, fsChanges, index, stop, join_handle, hist>>

(***************************************************************************)
(* The filesystem changes between scans.                                   *)
(***************************************************************************)
Quiet == /\ \A w \in Workers : scan[w].st # "running"
         /\ \A c \in Callers : caller[c].pc = "idle"

IsPrefix(p, q) == Len(p) <= Len(q) /\ SubSeq(q, 1, Len(p)) = p

\* the paths deleted from disk whose rows the catalog holds
Gone(db, paths) ==
    {[path |-> n.path, node_id |-> n.node_id] :
        n \in {m \in db.nodes : MapFsPath(m.path).path \in paths}}

FsChanged(f, gone) ==
    /\ fs' = f
    /\ fsChanges' = fsChanges + 1
    /\ hist' = [hist EXCEPT !.clean = FALSE, !.repeat = FALSE, !.gone = gone]
    /\ UNCHANGED <<serverVars, libVars, index, stop, join_handle, lock, caller, scan>>

\* a file or directory is written to: a new modified time
FsTouch ==
    /\ Quiet /\ fsChanges < MaxFsChanges
    /\ \E p \in FsPaths : \E m \in Mtimes \ {fs[p].mtime} :
         /\ fs[p].present
         /\ FsChanged([fs EXCEPT ![p].mtime = m], hist.gone)

\* a file or directory (with all below it) is removed; the parent's modified
\* time changes, or stays the same within the clock's one-second grain
FsDelete ==
    /\ Quiet /\ fsChanges < MaxFsChanges
    /\ \E p \in DOMAIN fs \ {FsRoot} : \E m \in Mtimes :
         /\ fs[p].present
         /\ FsChanged([q \in DOMAIN fs |->
                         IF IsPrefix(p, q) THEN [fs[q] EXCEPT !.present = FALSE]
                         ELSE IF q = FsParent(p) THEN [fs[q] EXCEPT !.mtime = m]
                         ELSE fs[q]],
                      hist.gone \cup Gone(index, {q \in DOMAIN fs : IsPrefix(p, q)}))

\* a file or an empty directory is made
FsCreate ==
    /\ Quiet /\ fsChanges < MaxFsChanges
    /\ \E p \in FsPaths \ {FsRoot} : \E m \in Mtimes, pm \in Mtimes :
         /\ ~fs[p].present /\ fs[FsParent(p)].present
         /\ FsChanged([q \in FsPaths |->
                         IF q = p THEN [present |-> TRUE, mtime |-> m, kind |-> NodeTypeOf(p)]
                         ELSE IF q = FsParent(p) THEN [fs[q] EXCEPT !.mtime = pm]
                         ELSE fs[q]],
                      {g \in hist.gone : MapFsPath(g.path).path # p})

\* a file is replaced by an empty directory of its name, or such a directory
\* by the file: what is there is new, with a modified time of its own, and
\* the parent's modified time changes or not
FsRetype ==
    /\ Quiet /\ fsChanges < MaxFsChanges + MaxRetypes
    /\ \E p \in FsPaths \ FsDirs : \E m \in Mtimes, pm \in Mtimes :
         /\ fs[p].present
         /\ FsChanged([q \in FsPaths |->
                         IF q = p
                         THEN [present |-> TRUE, mtime |-> m,
                               kind |-> IF fs[p].kind = "File" THEN "Directory" ELSE "File"]
                         ELSE IF q = FsParent(p) THEN [fs[q] EXCEPT !.mtime = pm]
                         ELSE fs[q]],
                      hist.gone)

\* a file is made within the second in which its directory was last written
\* to: the directory's modified time (whole seconds, scan.rs 240-245) stays
FsAppear ==
    /\ Quiet /\ fsChanges < MaxFsChanges + MaxAppear
    /\ \E p \in FsPaths \ FsDirs : \E m \in Mtimes :
         /\ ~fs[p].present /\ fs[FsParent(p)].present
         /\ FsChanged([fs EXCEPT ![p] = [present |-> TRUE, mtime |-> m, kind |-> NodeTypeOf(p)]],
                      {g \in hist.gone : MapFsPath(g.path).path # p})

(***************************************************************************)
(* The connection server (server.rs): the I/O thread over one poll, the    *)
(* incoming worker in receive_next_fn, the application with the handles    *)
(* it was given, and the peers.                                            *)
(***************************************************************************)
\* Connections that may be made (each is made once).
MaxConns == 2
\* Tokens of the pool (the program's pool holds Token(1) .. Token(1023)).
MaxTokens == 2
\* Segments the peers may send in all.
MaxSegments == 2
\* add_listener calls the application may make.
MaxListeners == 1
\* incoming events not yet taken by the worker when a socket at its end is
\* reported again
MaxPending == 2
\* feed and drain calls the application may make.
MaxFeeds == 1

\* Token(0): the token of the command channel
RxToken == 0

Conns == 1..MaxConns
Tokens == 1..MaxTokens

\* What a peer sends, a segment at a time: "g" is a request line, "x" a byte
\* that is no UTF-8, "e" the blank line that ends a header (CR LF CR LF).
Segments == {<<"g">>, <<"e">>, <<"g", "e">>, <<"x", "e">>}

\* the bytes of send(), of into_stream(), of feed() and of drain()
Payload == <<"a", "b">>
Prelude == <<"p">>
FeedData == <<"f">>
DrainData == <<"d">>

\* http::parse_request_headers as the callback of receive_next_fn: None until
\* the buffer ends with the blank line, Invalid for a header that is no UTF-8
\* or has no request line of three parts, else Receive
Parse(buf) ==
    IF buf = <<>> \/ buf[Len(buf)] # "e" THEN "None"
    ELSE IF \E i \in 1..Len(buf) : buf[i] = "x" THEN "Invalid"
    ELSE IF buf[1] # "g" THEN "Invalid"
    ELSE "Receive"

Command(kind, c, buffer) == [kind |-> kind, client |-> c, buffer |-> buffer]

Event(token, readable, writable) == [token |-> token, readable |-> readable, writable |-> writable]

\* the peer has shut its side down and the socket has not gone quiet: a read
\* returns the bytes left, and then Ok(0)
AtEnd(c) == net[c].fin = "ready"

\* poll.poll: the events that are ready.  The command channel is readable
\* while it holds a command, a listener while a peer waits to be accepted, a
\* connection by its registered interest.
Ready ==
    (IF server_rx # <<>> THEN {Event(RxToken, TRUE, FALSE)} ELSE {})
    \cup {Event(t, TRUE, FALSE) :
            t \in {l \in listeners : \E c \in Conns : net[c].st = "pending" /\ net[c].listener = l}}
    \cup {Event(client[c].token,
                client[c].interest = "readable",
                client[c].interest = "writable") :
            c \in {d \in Conns : /\ client[d].token # None
                                 /\ \/ client[d].interest = "writable"
                                    \/ /\ client[d].interest = "readable"
                                       /\ \/ net[d].inbound # <<>>
                                          \/ net[d].reset
                                          \/ AtEnd(d) /\ Len(incoming_rx) < MaxPending}}

\* the loop of ServerThread::run polls when it is through the events
Poll ==
    /\ events = {} /\ Ready # {}
    /\ events' = Ready
    /\ UNCHANGED <<scanVars, libVars, clients, tokens, listeners, server_rx, incoming_rx, streaming_rx,
                   client, net, app, env>>

\* a close that leaves the connection its token
ClosedHolding(cl, c) == [cl EXCEPT ![c].interest = "none"]

\* poll.deregister, client.token.take(), clients.remove, tokens.push
Closed(cl, c) == [cl EXCEPT ![c].token = None, ![c].interest = "none"]

\* poll.reregister(&client.stream, token, interest)
Reregister(cl, c, interest) == [cl EXCEPT ![c].interest = interest]

\* the Waiting command that changes the state and leaves the socket registered
\* for reading
CmdWaitingReadable(cl, c) == [cl EXCEPT ![c].state = "Waiting"]

\* process_server_rx, InternalCommand::Waiting
CmdWaiting(cl, c) == [Reregister(cl, c, "empty") EXCEPT ![c].state = "Waiting"]

\* process_server_rx, InternalCommand::Drain
CmdDrain(cl, c, buffer) ==
    [Reregister(cl, c, "writable") EXCEPT ![c].state = "Drain", ![c].buffer = buffer]

\* process_server_rx, InternalCommand::Stream
CmdStream(cl, c, buffer) ==
    [Reregister(cl, c, "writable") EXCEPT ![c].state = "Streaming", ![c].buffer = buffer]

\* process_server_rx, InternalCommand::StreamFeed
CmdStreamFeed(cl, c, buffer) ==
    [Reregister(cl, c, "writable") EXCEPT ![c].buffer = @ \o buffer]

\* process_server_rx, InternalCommand::StreamDrain
CmdStreamDrain(cl, c, buffer) ==
    [Reregister(cl, c, "writable") EXCEPT ![c].state = "Drain", ![c].buffer = @ \o buffer]

\* self.tokens.pop() as the function that asked for the token saw it and what
\* that function returned after it: without a token "max connections reached"
\* is logged and the function returns Ok(InternalResult::Ok)
Popped(pool) == [refused |-> pool = <<>>, returned |-> "Ok"]

\* ServerThread::process_server_rx: one command of the channel
ProcessServerRx ==
    /\ \E ev \in events : ev.token = RxToken /\ events' = events \ {ev}
    /\ IF server_rx = <<>>
       THEN UNCHANGED <<clients, tokens, listeners, server_rx, client, env>>
       ELSE LET command == Head(server_rx)
                c == command.client
                open == c # None /\ client[c].token # None
            IN /\ server_rx' = Tail(server_rx)
               /\ env' = IF command.kind = "AddListener"
                         THEN [env EXCEPT !.alloc = Popped(tokens)] ELSE env
               /\ IF command.kind = "AddListener" /\ tokens # <<>>
                  THEN /\ listeners' = listeners \cup {tokens[Len(tokens)]}
                       /\ tokens' = SubSeq(tokens, 1, Len(tokens) - 1)
                       /\ UNCHANGED <<clients, client>>
                  ELSE IF command.kind = "Close" /\ open
                  THEN /\ client' = Closed(client, c)
                       /\ clients' = [clients EXCEPT ![client[c].token] = None]
                       /\ tokens' = Append(tokens, client[c].token)
                       /\ UNCHANGED listeners
                  ELSE /\ client' =
                            IF ~open THEN client
                            ELSE IF command.kind = "Waiting" THEN CmdWaiting(client, c)
                            ELSE IF command.kind = "Drain" THEN CmdDrain(client, c, command.buffer)
                            ELSE IF command.kind = "Stream" THEN CmdStream(client, c, command.buffer)
                            ELSE IF command.kind = "StreamFeed"
                            THEN CmdStreamFeed(client, c, command.buffer)
                            ELSE IF command.kind = "StreamDrain"
                            THEN CmdStreamDrain(client, c, command.buffer)
                            ELSE client
                       /\ UNCHANGED <<clients, tokens, listeners>>
    /\ UNCHANGED <<scanVars, libVars, incoming_rx, streaming_rx, net, app>>

\* ServerThread::try_process_listener: one connection accepted, registered
\* under a token of the pool; without a token the stream is dropped
TryProcessListener ==
    /\ \E ev \in events :
         /\ ev.token \in listeners
         /\ events' = events \ {ev}
         /\ LET waiting == {c \in Conns : net[c].st = "pending" /\ net[c].listener = ev.token}
            IN IF waiting = {}
               THEN UNCHANGED <<clients, tokens, client, net, env>>
               ELSE LET c == MinOf(waiting)
                    IN IF tokens = <<>>
                       THEN /\ net' = [net EXCEPT ![c].st = "dropped"]
                            /\ env' = [env EXCEPT !.alloc = Popped(tokens)]
                            /\ UNCHANGED <<clients, tokens, client>>
                       ELSE LET token == tokens[Len(tokens)]
                            IN /\ tokens' = SubSeq(tokens, 1, Len(tokens) - 1)
                               /\ env' = [env EXCEPT !.alloc = Popped(tokens)]
                               /\ clients' = [clients EXCEPT ![token] = c]
                               /\ client' = [client EXCEPT ![c] =
                                     [token |-> token, state |-> "Incoming", buffer |-> <<>>,
                                      interest |-> "readable"]]
                               /\ net' = [net EXCEPT ![c].st = "accepted"]
    /\ UNCHANGED <<scanVars, libVars, listeners, server_rx, incoming_rx, streaming_rx, app>>

\* the socket after a read: once read has returned Ok(0) the poll reports the
\* socket again at the next reregister, or never again
AfterRead(c) ==
    IF net[c].inbound = <<>> /\ AtEnd(c) THEN {"ready", "quiet"} ELSE {net[c].fin}

\* TcpStream::write: how many bytes the socket takes
WriteSizes(buf) == IF buf = <<>> THEN {0} ELSE 1..Len(buf)

\* an event that is not sent (a queue left as it was)
Withheld(queue) == queue

\* streaming_tx.send(StreamingEvent::Event): one more event on the queue
Published(queue) == queue + 1

\* ServerThread::try_process_client: one event of a connection's token
TryProcessClient ==
    /\ \E ev \in events :
         /\ ev.token # RxToken /\ ev.token \notin listeners /\ clients[ev.token] # None
         /\ events' = events \ {ev}
         /\ LET c == clients[ev.token]
                failed == /\ client' = Closed(client, c)
                          /\ clients' = [clients EXCEPT ![ev.token] = None]
                          /\ tokens' = Append(tokens, ev.token)
            IN IF client[c].state = "Incoming"
               THEN IF ev.readable /\ net[c].reset
                    THEN failed /\ UNCHANGED <<incoming_rx, streaming_rx, net>>
                    ELSE IF ev.readable
                    THEN /\ client' = [Reregister(client, c, "readable") EXCEPT
                                          ![c].buffer = @ \o net[c].inbound]
                         /\ \E fin \in AfterRead(c) :
                              net' = [net EXCEPT ![c].inbound = <<>>, ![c].fin = fin]
                         /\ incoming_rx' = Append(incoming_rx, c)
                         /\ UNCHANGED <<clients, tokens, streaming_rx>>
                    ELSE /\ client' = Reregister(client, c, "readable")
                         /\ UNCHANGED <<clients, tokens, incoming_rx, streaming_rx, net>>
               ELSE IF client[c].state = "Waiting"
               THEN /\ client' = Reregister(client, c, "empty")
                    /\ UNCHANGED <<clients, tokens, incoming_rx, streaming_rx, net>>
               ELSE IF ev.writable /\ net[c].reset
               THEN /\ failed
                    /\ streaming_rx' = IF client[c].state = "Streaming"
                                       THEN Published(streaming_rx) ELSE streaming_rx
                    /\ UNCHANGED <<incoming_rx, net>>
               ELSE \E n \in IF ev.writable THEN WriteSizes(client[c].buffer) ELSE {0} :
                      LET buf == client[c].buffer
                          rest == SubSeq(buf, n + 1, Len(buf))
                      IN /\ net' = [net EXCEPT ![c].written = @ \o SubSeq(buf, 1, n)]
                         /\ UNCHANGED incoming_rx
                         /\ IF rest = <<>> /\ client[c].state = "Drain"
                            THEN /\ client' = [Closed(client, c) EXCEPT ![c].buffer = rest]
                                 /\ clients' = [clients EXCEPT ![ev.token] = None]
                                 /\ tokens' = Append(tokens, ev.token)
                                 /\ UNCHANGED streaming_rx
                            ELSE IF rest = <<>>
                            THEN /\ client' = [Reregister(client, c, "empty") EXCEPT
                                                  ![c].buffer = rest]
                                 /\ streaming_rx' = Published(streaming_rx)
                                 /\ UNCHANGED <<clients, tokens>>
                            ELSE /\ client' = [Reregister(client, c, "writable") EXCEPT
                                                  ![c].buffer = rest]
                                 /\ UNCHANGED <<clients, tokens, streaming_rx>>
    /\ UNCHANGED <<scanVars, libVars, listeners, server_rx, app, env>>

\* ServerThread::run, an event whose token matches nothing: logged, skipped
Unhandled ==
    /\ \E ev \in events :
         /\ ev.token # RxToken /\ ev.token \notin listeners /\ clients[ev.token] = None
         /\ events' = events \ {ev}
    /\ UNCHANGED <<scanVars, libVars, clients, tokens, listeners, server_rx, incoming_rx, streaming_rx,
                   client, net, app, env>>

\* ServerIncoming::receive_next_fn, one event of the incoming channel: the
\* connection's buffer is parsed unless its token is gone.  Receive returns
\* to the application with a handle; the other outcomes go on to the next
\* event.
ReceiveNext ==
    /\ incoming_rx # <<>>
    /\ incoming_rx' = Tail(incoming_rx)
    /\ LET c == Head(incoming_rx)
           result == IF client[c].token = None THEN "Skipped" ELSE Parse(client[c].buffer)
       IN /\ env' = [env EXCEPT !.client = c, !.result = result, !.state = client[c].state]
          /\ server_rx' = IF result = "Receive" THEN Append(server_rx, Command("Waiting", c, <<>>))
                          ELSE IF result = "Invalid" THEN Append(server_rx, Command("Close", c, <<>>))
                          ELSE server_rx
          /\ app' = IF result = "Receive"
                    THEN [app EXCEPT ![c].requests = Append(@, client[c].buffer),
                                     ![c].incoming = @ + 1]
                    ELSE app
    /\ UNCHANGED <<scanVars, libVars, clients, tokens, listeners, streaming_rx, client, events, net>>

\* ServerIncoming::add_listener
AddListener ==
    /\ env.listeners < MaxListeners
    /\ env' = [env EXCEPT !.listeners = @ + 1]
    /\ server_rx' = Append(server_rx, Command("AddListener", None, <<>>))
    /\ UNCHANGED <<scanVars, libVars, clients, tokens, listeners, incoming_rx, streaming_rx, client,
                   events, net, app>>

\* a handle's command is sent while the connection has its token
Sent(c, command) == IF client[c].token # None THEN Append(server_rx, command) ELSE server_rx

\* IncomingClient::send: the handle is used up
Send(c) ==
    /\ app[c].incoming > 0
    /\ app' = [app EXCEPT ![c].incoming = @ - 1]
    /\ server_rx' = Sent(c, Command("Drain", c, Payload))
    /\ UNCHANGED <<scanVars, libVars, clients, tokens, listeners, incoming_rx, streaming_rx, client,
                   events, net, env>>

\* IncomingClient::into_stream: the handle becomes a StreamingClient
IntoStream(c) ==
    /\ app[c].incoming > 0
    /\ app' = [app EXCEPT ![c].incoming = @ - 1, ![c].streaming = @ + 1,
                           ![c].calls = @ \o Prelude]
    /\ server_rx' = Sent(c, Command("Stream", c, Prelude))
    /\ UNCHANGED <<scanVars, libVars, clients, tokens, listeners, incoming_rx, streaming_rx, client,
                   events, net, env>>

\* StreamingClient::feed
Feed(c) ==
    /\ app[c].streaming > 0 /\ env.feeds < MaxFeeds
    /\ env' = [env EXCEPT !.feeds = @ + 1]
    /\ app' = [app EXCEPT ![c].calls = @ \o FeedData]
    /\ server_rx' = Sent(c, Command("StreamFeed", c, FeedData))
    /\ UNCHANGED <<scanVars, libVars, clients, tokens, listeners, incoming_rx, streaming_rx, client,
                   events, net>>

\* StreamingClient::drain
Drain(c) ==
    /\ app[c].streaming > 0 /\ env.feeds < MaxFeeds
    /\ env' = [env EXCEPT !.feeds = @ + 1]
    /\ app' = [app EXCEPT ![c].calls = @ \o DrainData]
    /\ server_rx' = Sent(c, Command("StreamDrain", c, DrainData))
    /\ UNCHANGED <<scanVars, libVars, clients, tokens, listeners, incoming_rx, streaming_rx, client,
                   events, net>>

\* ServerStreaming::streaming_next: one event of the streaming channel
StreamingNext ==
    /\ streaming_rx > 0
    /\ streaming_rx' = streaming_rx - 1
    /\ UNCHANGED <<scanVars, libVars, clients, tokens, listeners, server_rx, incoming_rx, client,
                   events, net, app, env>>

\* a peer connects to a listener
PeerConnect ==
    /\ \E c \in Conns : \E l \in listeners :
         /\ net[c].st = "none" /\ \A d \in Conns : d < c => net[d].st # "none"
         /\ net' = [net EXCEPT ![c].st = "pending", ![c].listener = l]
    /\ UNCHANGED <<scanVars, libVars, clients, tokens, listeners, server_rx, incoming_rx, streaming_rx,
                   client, events, app, env>>

\* a peer sends one segment
PeerSend ==
    /\ env.segments < MaxSegments
    /\ env' = [env EXCEPT !.segments = @ + 1]
    /\ \E c \in Conns : \E segment \in Segments :
         /\ net[c].st = "accepted" /\ ~net[c].reset /\ net[c].fin = "no"
         /\ net' = [net EXCEPT ![c].inbound = @ \o segment]
    /\ UNCHANGED <<scanVars, libVars, clients, tokens, listeners, server_rx, incoming_rx, streaming_rx,
                   client, events, app>>

\* a peer resets its connection: reads and writes of the socket fail
PeerReset ==
    /\ \E c \in Conns :
         /\ net[c].st = "accepted" /\ ~net[c].reset
         /\ net' = [net EXCEPT ![c].reset = TRUE]
    /\ UNCHANGED <<scanVars, libVars, clients, tokens, listeners, server_rx, incoming_rx, streaming_rx,
                   client, events, app, env>>

\* a peer shuts down its side of the connection: reads of the socket return
\* what it sent, and then 0 bytes
PeerClose ==
    /\ \E c \in Conns :
         /\ net[c].st = "accepted" /\ ~net[c].reset /\ net[c].fin = "no"
         /\ net' = [net EXCEPT ![c].fin = "ready"]
    /\ UNCHANGED <<scanVars, libVars, clients, tokens, listeners, server_rx, incoming_rx, streaming_rx,
                   client, events, app, env>>

\* Server::launch_new: the state the I/O thread starts with
InitServer ==
    /\ clients = [t \in Tokens |-> None]
    /\ tokens = [i \in 1..MaxTokens |-> i]
    /\ listeners = {}
    /\ server_rx = <<>>
    /\ incoming_rx = <<>>
    /\ streaming_rx = 0
    /\ client = [c \in Conns |-> [token |-> None, state |-> "Incoming", buffer |-> <<>>,
                                  interest |-> "none"]]
    /\ events = {}
    /\ net = [c \in Conns |-> [st |-> "none", listener |-> None, inbound |-> <<>>,
                               written |-> <<>>, reset |-> FALSE, fin |-> "no"]]
    /\ app = [c \in Conns |-> [requests |-> <<>>, incoming |-> 0, streaming |-> 0,
                               calls |-> <<>>]]
    /\ env = [segments |-> 0, listeners |-> 0, feeds |-> 0,
              client |-> None, result |-> "None", state |-> "Incoming",
              alloc |-> [refused |-> FALSE, returned |-> "Ok"]]

(***************************************************************************)
(* The audio producer (audio_stream.rs over the media library) and the     *)
(* streaming driver (stream_thread.rs).  A producer is the sequence of the *)
(* results of its next() calls: the bytes it hands to the callback and     *)
(* whether more input remains; the last call of a producer returns false.  *)
(***************************************************************************)
\* The flush size of the read loops (the program's is 10 * 1024 bytes).
FlushSize == 2
\* next() calls of a producer, and bytes one call may hand to the callback.
MaxNexts == 3
MaxChunk == 2

\* the producers: call k hands over 0 .. MaxChunk bytes, each of them k, and
\* returns true but for the last call
Bytes == <<"1", "2", "3", "4", "5", "6">>

Producers ==
    UNION {{[k \in 1..n |-> [data |-> [i \in 1..sizes[k] |-> Bytes[k]], more |-> k < n]] :
                sizes \in [1..n -> 0..MaxChunk]} : n \in 1..MaxNexts}

\* the producer of every stream the driver serves: one byte a call
Source == [k \in 1..MaxNexts |-> [data |-> <<Bytes[k]>>, more |-> k < MaxNexts]]

\* `while result && buf.len() < 10 * 1024 { result = audio_stream.next(..) }`
\* from the call after `at`: the buffer, the last result, the calls made, and
\* whether next() was called on a producer that had returned false
RECURSIVE Fill(_, _, _)
Fill(producer, at, buf) ==
    IF Len(buf) >= FlushSize
    THEN [buf |-> buf, result |-> TRUE, at |-> at, over |-> FALSE]
    ELSE IF at >= Len(producer)
    THEN [buf |-> buf, result |-> FALSE, at |-> at, over |-> TRUE]
    ELSE IF ~producer[at + 1].more
    THEN [buf |-> buf \o producer[at + 1].data, result |-> FALSE, at |-> at + 1,
          over |-> FALSE]
    ELSE Fill(producer, at + 1, buf \o producer[at + 1].data)

\* StreamingClient::status
Status(c) ==
    IF client[c].token = None THEN "Closed"
    ELSE IF client[c].buffer = <<>> THEN "Ready"
    ELSE "Waiting"

\* Vec::remove for each index, in the order given
RECURSIVE RemoveEach(_, _)
RemoveEach(v, indices) ==
    IF indices = <<>> THEN v
    ELSE RemoveEach(IF Head(indices) \in 1..Len(v)
                    THEN SubSeq(v, 1, Head(indices) - 1) \o SubSeq(v, Head(indices) + 1, Len(v))
                    ELSE v,
                    Tail(indices))

\* the pairs removed by index from the first index marked to the last
RemovedForward(v, indices) == RemoveEach(v, indices)

\* `for index in remove_indices.iter().rev() { audio_streams.remove(*index) }`
Removed(v, indices) ==
    RemoveEach(v, [i \in 1..Len(indices) |-> indices[Len(indices) + 1 - i]])

IdleStreamThread ==
    [audio_streams |-> <<>>, pc |-> "wait", index |-> 0, remove_indices |-> <<>>,
     buf |-> <<>>, result |-> TRUE]

\* StreamThread::add_audio_stream, under the lock of the driver's map:
\* into_stream with the response head, and the pair pushed
AddAudioStream(c) ==
    /\ app[c].incoming > 0 /\ stream_thread.pc = "wait"
    /\ app' = [app EXCEPT ![c].incoming = @ - 1, ![c].streaming = @ + 1,
                           ![c].calls = @ \o Prelude]
    /\ server_rx' = Sent(c, Command("Stream", c, Prelude))
    /\ stream_thread' = [stream_thread EXCEPT
                            !.audio_streams = Append(@, [client |-> c, at |-> 0])]
    /\ UNCHANGED <<scanVars, apiVars, cache, audio, clients, tokens, listeners, incoming_rx,
                   streaming_rx, client, events, net, env>>

\* the driver's loop: streaming_next returns an event, the map is locked
StreamThreadNext ==
    /\ stream_thread.pc = "wait" /\ streaming_rx > 0
    /\ streaming_rx' = streaming_rx - 1
    /\ stream_thread' = [stream_thread EXCEPT !.pc = "status", !.index = 1,
                                              !.remove_indices = <<>>]
    /\ UNCHANGED <<scanVars, apiVars, cache, audio, clients, tokens, listeners, server_rx,
                   incoming_rx, client, events, net, app, env>>

\* one pair of the pass: client.status(), and for Ready the read loop over
\* the producer
StreamThreadStatus ==
    /\ stream_thread.pc = "status" /\ stream_thread.index <= Len(stream_thread.audio_streams)
    /\ LET i == stream_thread.index
           pair == stream_thread.audio_streams[i]
           status == Status(pair.client)
           filled == Fill(Source, pair.at, <<>>)
       IN stream_thread' =
            IF status = "Waiting" THEN [stream_thread EXCEPT !.index = i + 1]
            ELSE IF status = "Closed"
            THEN [stream_thread EXCEPT !.index = i + 1,
                                       !.remove_indices = Append(@, i)]
            ELSE [stream_thread EXCEPT !.pc = "feed", !.buf = filled.buf,
                                       !.result = filled.result,
                                       !.audio_streams[i].at = filled.at]
    /\ UNCHANGED <<scanVars, apiVars, cache, audio, serverVars>>

\* the same pair: client.feed(&buf), or client.drain(&buf) and the pair marked
StreamThreadFeed ==
    /\ stream_thread.pc = "feed"
    /\ LET i == stream_thread.index
           c == stream_thread.audio_streams[i].client
           buf == stream_thread.buf
       IN /\ server_rx' = Sent(c, Command(IF stream_thread.result THEN "StreamFeed"
                                          ELSE "StreamDrain", c, buf))
          /\ app' = [app EXCEPT ![c].calls = @ \o buf]
          /\ stream_thread' = [stream_thread EXCEPT
                !.pc = "status", !.index = i + 1, !.buf = <<>>, !.result = TRUE,
                !.remove_indices = IF stream_thread.result THEN @ ELSE Append(@, i)]
    /\ UNCHANGED <<scanVars, apiVars, cache, audio, clients, tokens, listeners, incoming_rx,
                   streaming_rx, client, events, net, env>>

\* the end of the pass: the marked pairs are removed, the lock released
StreamThreadRemove ==
    /\ stream_thread.pc = "status" /\ stream_thread.index > Len(stream_thread.audio_streams)
    /\ stream_thread' = [stream_thread EXCEPT
          !.audio_streams = Removed(@, stream_thread.remove_indices),
          !.pc = "wait", !.index = 0, !.remove_indices = <<>>]
    /\ UNCHANGED <<scanVars, apiVars, cache, audio, serverVars>>

(***************************************************************************)
(* The blob cache (cache.rs over CACHE_SCHEMA).  A row carries its rowid;  *)
(* `stored` numbers the inserts (history, not a column).  strftime('%s',   *)
(* 'now') is a clock of whole seconds that never runs backwards.           *)
(***************************************************************************)
\* CacheSource.max_size
max_size == 3
\* Sizes of the blobs stored: 1 .. MaxBlob, the largest above max_size.
MaxBlob == 4
\* Seconds the clock may advance, and set_blob calls made.
MaxClock == 2
MaxSets == 4

Keys == {"k1", "k2", "k3"}

EmptyCache ==
    [rows |-> {}, now |-> 0, sets |-> 0, last |-> "none", result |-> "Ok",
     before |-> {}, evicted |-> {}]

RECURSIVE SumSize(_)
\* SELECT SUM(size) FROM cache (of no row: NULL, here 0 with Evict's test)
SumSize(rows) ==
    IF rows = {} THEN 0
    ELSE LET r == CHOOSE x \in rows : TRUE IN r.size + SumSize(rows \ {r})

\* the row that was stored first, whenever it was read
OldestStored(rows) == CHOOSE r \in rows : \A x \in rows : r.rowid <= x.rowid

\* SELECT rowid FROM cache ORDER BY last_access ASC LIMIT 1: of the rows with
\* the least last_access, the first of the table scan
Oldest(rows) ==
    CHOOSE r \in rows : \A x \in rows :
        r.last_access < x.last_access \/ (r.last_access = x.last_access /\ r.rowid <= x.rowid)

\* the loop of set_blob left after its first round
EvictOnce(rows) ==
    IF rows = {} THEN [rows |-> rows, result |-> "Err"]
    ELSE IF SumSize(rows) <= max_size THEN [rows |-> rows, result |-> "Ok"]
    ELSE [rows |-> rows \ {Oldest(rows)}, result |-> "Ok"]

RECURSIVE Evict(_)
\* the loop of set_blob: Ok once the sum is within max_size; the sum of an
\* empty table is NULL, which row.get reads as an error
Evict(rows) ==
    IF rows = {} THEN [rows |-> rows, result |-> "Err"]
    ELSE IF SumSize(rows) <= max_size THEN [rows |-> rows, result |-> "Ok"]
    ELSE Evict(rows \ {Oldest(rows)})

\* SqliteCache::set_blob: INSERT OR REPLACE, then the eviction loop
SetBlob(key, size) ==
    /\ cache.sets < MaxSets
    /\ LET kept == {r \in cache.rows : r.key # key}
           rowid == IF cache.rows = {} THEN 1
                    ELSE 1 + (CHOOSE m \in {r.rowid : r \in cache.rows} :
                                 \A r \in cache.rows : r.rowid <= m)
           inserted == kept \cup {[rowid |-> rowid, key |-> key, size |-> size,
                                   last_access |-> cache.now, stored |-> cache.sets + 1]}
           done == Evict(inserted)
       IN cache' = [cache EXCEPT !.rows = done.rows, !.sets = @ + 1, !.last = "set_blob",
                                 !.result = done.result, !.before = inserted,
                                 !.evicted = inserted \ done.rows]
    /\ UNCHANGED <<scanVars, apiVars, serverVars, stream_thread, audio>>

\* SqliteCache::get_blob: a hit refreshes last_access
GetBlob(key) ==
    /\ cache' = [cache EXCEPT
          !.rows = {IF r.key = key THEN [r EXCEPT !.last_access = cache.now] ELSE r : r \in @},
          !.last = "get_blob",
          !.result = IF \E r \in cache.rows : r.key = key THEN "Some" ELSE "None"]
    /\ UNCHANGED <<scanVars, apiVars, serverVars, stream_thread, audio>>

\* a second passes
Tick ==
    /\ cache.now < MaxClock
    /\ cache' = [cache EXCEPT !.now = @ + 1, !.last = "tick"]
    /\ UNCHANGED <<scanVars, apiVars, serverVars, stream_thread, audio>>

(***************************************************************************)
(* AudioStream::execute (audio_stream.rs): the task that reads a producer  *)
(* and sends each buffer to the channel of the response body.              *)
(***************************************************************************)
\* the task of a producer, before its first round
NewAudio(producer) ==
    [producer |-> producer, at |-> 0, sent |-> <<>>, pc |-> "loop",
     disconnected |-> FALSE, over |-> FALSE]

\* execute, the buffer of one round handed to sender.send: the buffer while
\* next() returned true, an empty Vec once it returned false
SendRound(filled) == IF filled.result THEN <<filled.buf>> ELSE << <<>> >>

\* one round of `loop` in execute: the read loop, sender.send, and the break
\* after the last round or when the channel is disconnected
Execute ==
    /\ audio.pc = "loop"
    /\ LET filled == Fill(audio.producer, audio.at, <<>>)
       IN audio' = [audio EXCEPT
             !.at = filled.at,
             !.over = @ \/ filled.over,
             !.sent = IF audio.disconnected THEN @ ELSE @ \o SendRound(filled),
             !.pc = IF filled.result /\ ~audio.disconnected THEN "loop" ELSE "done"]
    /\ UNCHANGED <<scanVars, apiVars, serverVars, stream_thread, cache>>

\* the receiver of the channel is dropped (the peer went away)
ReceiverDrop ==
    /\ audio.pc = "loop" /\ ~audio.disconnected
    /\ audio' = [audio EXCEPT !.disconnected = TRUE]
    /\ UNCHANGED <<scanVars, apiVars, serverVars, stream_thread, cache>>

(***************************************************************************)
(* api_track_lyrics (http_api.rs) over the TrackLyrics table (index.rs).   *)
(* The service runs one handler per request, on the threads of the         *)
(* runtime, each with a connection of its own to index.db.                 *)
(***************************************************************************)
\* Handlers that may run at once.
MaxRequests == 2
\* Calls of the handler in one execution.
MaxCalls == 4
\* The highest track_id of the catalog.
MaxTrackId == 2

TrackIds == 1..MaxTrackId

\* Result<Option<Lyrics>> of try_fetch_lyrics
Outcomes == {"found", "none", "error"}

NoRow == [track_id |-> None, has_lyrics |-> FALSE, modified |-> 0]

IdleRequest == [pc |-> "idle", track_id |-> None, late |-> FALSE,
                response |-> "none", row |-> NoRow, fetched |-> FALSE]

\* rows: the TrackLyrics table by track_id; req: the handlers; first, fetches
\* and late are history: the row the first fetch without error stored, the
\* calls of the fetcher, whether a handler began after that first row
EmptyLyrics ==
    [tracks |-> TrackIds, rows |-> [t \in TrackIds |-> NoRow], clock |-> 0, calls |-> 0,
     req |-> [r \in 1..MaxRequests |-> IdleRequest],
     first |-> [t \in TrackIds |-> NoRow], fetches |-> [t \in TrackIds |-> 0]]

\* Index::track_lyrics
TrackLyrics(table, track_id) == table.rows[track_id]

\* Index::set_track_lyrics: INSERT OR REPLACE, modified = strftime('%s','now')
SetTrackLyrics(table, track_id, has_lyrics) ==
    [table EXCEPT !.rows[track_id] =
        [track_id |-> track_id, has_lyrics |-> has_lyrics, modified |-> table.clock]]

\* api_track_lyrics up to the fetch: not found without the track, the stored
\* row when there is one, else the handler goes on to fetch
ApiTrackLyrics(r, track_id) ==
    /\ lyrics.req[r].pc = "idle" /\ lyrics.calls < MaxCalls
    /\ lyrics' = [lyrics EXCEPT
          !.calls = @ + 1,
          !.req[r] =
            IF track_id \notin lyrics.tracks
            THEN [IdleRequest EXCEPT !.track_id = track_id, !.response = "not_found"]
            ELSE IF TrackLyrics(lyrics, track_id) # NoRow
            THEN [IdleRequest EXCEPT !.track_id = track_id, !.response = "ok",
                                     !.row = TrackLyrics(lyrics, track_id),
                                     !.late = lyrics.first[track_id] # NoRow]
            ELSE [IdleRequest EXCEPT !.pc = "fetch", !.track_id = track_id,
                                     !.late = lyrics.first[track_id] # NoRow]]
    /\ UNCHANGED <<scanVars, serverVars, stream_thread, cache, audio, query, sheet, opening, locks>>

\* api_track_lyrics from the fetch on: try_fetch_lyrics returns; an error is
\* answered with a server error; Some and None are stored by
\* set_track_lyrics (which fails on the foreign key when the track is gone)
\* and the row read back is answered
TryFetchLyrics(r, outcome) ==
    /\ lyrics.req[r].pc = "fetch"
    /\ LET track_id == lyrics.req[r].track_id
           counted == [lyrics EXCEPT !.fetches[track_id] = @ + 1]
           stored == SetTrackLyrics(counted, track_id, outcome = "found")
       IN lyrics' =
            IF outcome = "error" \/ track_id \notin lyrics.tracks
            THEN [counted EXCEPT !.req[r] = [@ EXCEPT !.pc = "idle", !.response = "server_error",
                                                      !.fetched = TRUE]]
            ELSE [stored EXCEPT
                    !.req[r] = [@ EXCEPT !.pc = "idle", !.response = "ok", !.fetched = TRUE,
                                         !.row = TrackLyrics(stored, track_id)],
                    !.first[track_id] = IF @ = NoRow THEN TrackLyrics(stored, track_id) ELSE @]
    /\ UNCHANGED <<scanVars, serverVars, stream_thread, cache, audio, query, sheet, opening, locks>>

\* a second of the clock of strftime('%s','now')
LyricsTick ==
    /\ lyrics.clock < MaxClock
    /\ lyrics' = [lyrics EXCEPT !.clock = @ + 1]
    /\ UNCHANGED <<scanVars, serverVars, stream_thread, cache, audio, query, sheet, opening, locks>>

\* the scan deletes a track (clear_node, delete_node): TrackLyrics.track_id
\* ON DELETE CASCADE; a track_id is never given again (AUTOINCREMENT)
DeleteTrack(track_id) ==
    /\ track_id \in lyrics.tracks
    /\ lyrics' = [lyrics EXCEPT !.tracks = @ \ {track_id}, !.rows[track_id] = NoRow]
    /\ UNCHANGED <<scanVars, serverVars, stream_thread, cache, audio, query, sheet, opening, locks>>

(***************************************************************************)
(* HttpQuery (http_util.rs; http.rs holds the same code): from and         *)
(* decode_url over strings of bytes.  A panic ends the call.               *)
(***************************************************************************)
\* The longest key and the longest value of an encoded query.
MaxQueryLen == 2
\* The longest query string of any bytes.
MaxRawLen == 3

\* b'%', b'+', b' ', b'&', b'='
Percent == 37
Plus == 43
Space == 32
Ampersand == 38
Equals == 61

\* the bytes keys and values are made of: ' ', '%', '+', '4', 'A'
QueryBytes == {Space, Percent, Plus, 52, 65}

\* the sequences over S of length at most n
RECURSIVE SeqsUpTo(_, _)
SeqsUpTo(S, n) ==
    IF n = 0 THEN {<<>>}
    ELSE LET shorter == SeqsUpTo(S, n - 1)
         IN shorter \cup {Append(q, b) : q \in shorter, b \in S}

\* u8::is_ascii_hexdigit
IsAsciiHexdigit(b) == b \in 48..57 \/ b \in 65..70 \/ b \in 97..102

\* the value of a hexadecimal digit
HexVal(b) == IF b \in 48..57 THEN b - 48 ELSE IF b \in 65..70 THEN b - 55 ELSE b - 87

\* u8::from_str_radix(&src[i + 1..i + 3], 16)
FromStrRadix16(h, l) == 16 * HexVal(h) + HexVal(l)

\* bytes.len() - 3 in usize: the difference, or below three bytes a panic
\* with overflow checks (debug) and the wrapped value without (release);
\* the wrapped value, above every index, is kept as the flag
LenMinus3(len, build) ==
    [panic |-> len < 3 /\ build = "debug", wrapped |-> len < 3, value |-> len - 3]

RECURSIVE DecodeFrom(_, _, _, _)
\* decode_url, the loop from index i (0-based) with the result so far
DecodeFrom(bytes, i, result, build) ==
    IF i >= Len(bytes) THEN [panic |-> FALSE, result |-> result]
    ELSE IF bytes[i + 1] = Percent
    THEN IF LenMinus3(Len(bytes), build).panic THEN [panic |-> TRUE, result |-> result]
         ELSE IF ~(LenMinus3(Len(bytes), build).wrapped \/ i <= LenMinus3(Len(bytes), build).value)
         THEN DecodeFrom(bytes, i + 1, Append(result, bytes[i + 1]), build)
         ELSE IF i + 1 >= Len(bytes) THEN [panic |-> TRUE, result |-> result]
         ELSE IF ~IsAsciiHexdigit(bytes[i + 2])
         THEN DecodeFrom(bytes, i + 1, Append(result, bytes[i + 1]), build)
         ELSE IF i + 2 >= Len(bytes) THEN [panic |-> TRUE, result |-> result]
         ELSE IF ~IsAsciiHexdigit(bytes[i + 3])
         THEN DecodeFrom(bytes, i + 1, Append(result, bytes[i + 1]), build)
         ELSE DecodeFrom(bytes, i + 3, Append(result, FromStrRadix16(bytes[i + 2], bytes[i + 3])), build)
    ELSE IF bytes[i + 1] = Plus THEN DecodeFrom(bytes, i + 1, Append(result, Space), build)
    ELSE DecodeFrom(bytes, i + 1, Append(result, bytes[i + 1]), build)

\* HttpQuery::decode_url
DecodeUrl(src, build) == DecodeFrom(src, 0, <<>>, build)

\* the index of the first sep in s, or 0
FirstAt(s, sep) ==
    IF \E k \in 1..Len(s) : s[k] = sep
    THEN CHOOSE k \in 1..Len(s) : s[k] = sep /\ \A j \in 1..(k - 1) : s[j] # sep
    ELSE 0

RECURSIVE Split(_, _)
\* str::split(sep): the fields between the separators
Split(s, sep) ==
    IF FirstAt(s, sep) = 0 THEN <<s>>
    ELSE <<SubSeq(s, 1, FirstAt(s, sep) - 1)>> \o Split(SubSeq(s, FirstAt(s, sep) + 1, Len(s)), sep)

\* field.splitn(2, '='): the key, and the rest or ""
FieldKey(field) ==
    IF FirstAt(field, Equals) = 0 THEN field ELSE SubSeq(field, 1, FirstAt(field, Equals) - 1)
FieldRest(field) ==
    IF FirstAt(field, Equals) = 0 THEN <<>> ELSE SubSeq(field, FirstAt(field, Equals) + 1, Len(field))

\* the value of one field: decode_url of decode_url of the rest
FieldValue(field, build) ==
    IF DecodeUrl(FieldRest(field), build).panic THEN DecodeUrl(FieldRest(field), build)
    ELSE DecodeUrl(DecodeUrl(FieldRest(field), build).result, build)

\* BTreeMap::insert into a map kept as a set of [key, value]
Insert(map, key, value) == {e \in map : e.key # key} \cup {[key |-> key, value |-> value]}

RECURSIVE FromFields(_, _, _, _)
\* HttpQuery::from, the loop over the fields
FromFields(fields, k, map, build) ==
    IF k > Len(fields) THEN [panic |-> FALSE, map |-> map]
    ELSE IF FieldValue(fields[k], build).panic THEN [panic |-> TRUE, map |-> map]
    ELSE FromFields(fields, k + 1,
                    Insert(map, FieldKey(fields[k]), FieldValue(fields[k], build).result), build)

\* HttpQuery::from
HttpQueryFrom(s, build) == FromFields(Split(s, Ampersand), 1, {}, build)

\* the URL-encoded form the requests carry: letters and digits as they are,
\* a space as '+', any other byte as %HH
HexDigit(d) == IF d < 10 THEN 48 + d ELSE 55 + d
EncodeByte(b) ==
    IF b \in 48..57 \/ b \in 65..90 \/ b \in 97..122 THEN <<b>>
    ELSE IF b = Space THEN <<Plus>>
    ELSE <<Percent, HexDigit(b \div 16), HexDigit(b % 16)>>

RECURSIVE EncodeUrl(_)
EncodeUrl(s) == IF s = <<>> THEN <<>> ELSE EncodeByte(Head(s)) \o EncodeUrl(Tail(s))

\* a call of HttpQuery::from before it runs: of the encoded form of key=value,
\* or of any query string (encoded FALSE)
NewQuery(encoded, key, value, src, build) ==
    [encoded |-> encoded, key |-> key, value |-> value, src |-> src, build |-> build,
     pc |-> "call", panic |-> FALSE, map |-> {}]

\* the call runs
ParseQuery ==
    /\ query.pc = "call"
    /\ query' = [query EXCEPT !.pc = "done",
                              !.panic = HttpQueryFrom(query.src, query.build).panic,
                              !.map = HttpQueryFrom(query.src, query.build).map]
    /\ UNCHANGED <<scanVars, serverVars, stream_thread, cache, audio, lyrics, sheet, opening, locks>>

(***************************************************************************)
(* The times of a cue sheet (cue.rs, scan.rs).  They are f64: a number of  *)
(* the model is a multiple of 2^-FracBits that has PrecisionBits           *)
(* significant bits, written as its count of 2^-FracBits; every operation  *)
(* rounds to the nearest such number, ties to the even one, as IEEE 754    *)
(* does.                                                                   *)
(***************************************************************************)
\* "One frame is 1/75 seconds"
FramesPerSecond == 75

\* 1.0
One == 2 ^ FracBits

RECURSIVE Binade(_, _)
\* the unit in the last place of the numbers from q on: the least power of
\* two that leaves q fewer than PrecisionBits + 1 bits
Binade(q, unit) == IF q \div unit < 2 ^ PrecisionBits THEN unit ELSE Binade(q, 2 * unit)

\* the unit in the last place of x
Ulp(x) == Binade(x, 1)

\* n / d rounded to a number of the format (n >= 0, d > 0)
RoundTo(n, d, unit) ==
    LET m == n \div (d * unit)
        rest == n - m * d * unit
    IN IF 2 * rest > d * unit \/ (2 * rest = d * unit /\ m % 2 = 1)
       THEN (m + 1) * unit ELSE m * unit

Round(n, d) == RoundTo(n, d, Binade(n \div d, 1))

\* x + y and x - y of f64
FAdd(x, y) == Round(x + y, 1)
FSub(x, y) == IF x >= y THEN Round(x - y, 1) ELSE 0 - Round(y - x, 1)

\* parse_cue, INDEX 01 mm:ss:ff: f64::from(mins) * 60 + f64::from(secs) is a
\* whole number and exact; f64::from(frames) / 75 and the sum are rounded
CueStart(mins, secs, frames) ==
    FAdd((mins * 60 + secs) * One, Round(frames * One, FramesPerSecond))

\* track.length = last_start - start
CueLength(last_start, start) == FSub(last_start, start)

\* lengths calculated without last_start = start: each to the master's end
CueLengthsToEnd(starts, length) ==
    [i \in 1..Len(starts) |-> CueLength(length, starts[i])]

\* try_process_cue_file, "Calculate lengths": from the last track back, each
\* track's length is the start of the one after it, or the master's length,
\* less its own start
CueLengths(starts, length) ==
    [i \in 1..Len(starts) |->
        CueLength(IF i = Len(starts) THEN length ELSE starts[i + 1], starts[i])]

NewSheet(starts, length) ==
    [pc |-> "parsed", starts |-> starts, length |-> length, lengths |-> <<>>]

CalculateLengths ==
    /\ sheet.pc = "parsed"
    /\ sheet' = [sheet EXCEPT !.pc = "done", !.lengths = CueLengths(sheet.starts, sheet.length)]
    /\ UNCHANGED <<scanVars, serverVars, stream_thread, cache, audio, lyrics, query, opening, locks>>

(***************************************************************************)
(* api_audio_stream (http_api.rs): the start and the length AudioStream::  *)
(* open is given for a track.  Seconds are numbers of the f64 format       *)
(* above; start is NoStart for a track of a file of its own.               *)
(***************************************************************************)
NewOpening(track_start, track_length, offset) ==
    [pc |-> "request", track_start |-> track_start, track_length |-> track_length,
     offset |-> offset, start |-> 0, length |-> 0]

NoOpening == [NewOpening(NoStart, 0, 0) EXCEPT !.pc = "done"]

\* `let start = start + track.start.unwrap_or(0f64)`
OpenStart(track_start, offset) ==
    FAdd(offset, IF track_start = NoStart THEN 0 ELSE track_start)

\* `if track.start.is_some() { track.length - start } else { 0f64 }`, start
\* being the sum above
OpenLength(track_start, track_length, offset) ==
    IF track_start # NoStart THEN FSub(track_length, OpenStart(track_start, offset)) ELSE 0

\* api_audio_stream from the `start` parameter to AudioStream::open
ApiAudioStream ==
    /\ opening.pc = "request"
    /\ opening' =
          IF opening.offset < 0 THEN [opening EXCEPT !.pc = "bad_request"]
          ELSE [opening EXCEPT
                  !.pc = "opened",
                  !.start = OpenStart(opening.track_start, opening.offset),
                  !.length = OpenLength(opening.track_start, opening.track_length,
                                        opening.offset)]
    /\ UNCHANGED <<scanVars, serverVars, stream_thread, cache, audio, lyrics, query, sheet, locks>>

(***************************************************************************)
(* The mutexes of the server and the streaming driver: the driver's map    *)
(* (StreamThread.inner), each connection's InternalClient, and the command *)
(* sender (server_tx).  A call is the sequence of its lock() calls and of  *)
(* the ends of its guards; a thread makes one call after the other.  The   *)
(* channels are unbounded and the sockets non-blocking: nothing but lock() *)
(* blocks while a guard is held.                                           *)
(***************************************************************************)
\* Pairs of the driver's map one pass may go through.
MaxStreams == 1

MapMutex == <<"map", 0>>
ClientMutex(c) == <<"client", c>>
SenderMutex == <<"sender", 0>>
Mutexes == {MapMutex, SenderMutex} \cup {ClientMutex(c) : c \in Conns}

LockOf(m) == [op |-> "lock", mutex |-> m]
DropOf(m) == [op |-> "drop", mutex |-> m]

\* feed with the sender locked before the client
ClientCallSenderFirst(c, sends) ==
    IF sends THEN <<LockOf(SenderMutex), LockOf(ClientMutex(c)), DropOf(ClientMutex(c)),
                    DropOf(SenderMutex)>>
    ELSE <<LockOf(ClientMutex(c)), DropOf(ClientMutex(c))>>

\* a call on one connection: internal.lock() held to the end of the call,
\* and within it, with a token (for receive_next_fn: with a parse that is
\* not None), server_tx.lock() for the one statement that sends.  This is
\* send, into_stream, feed, drain and the body of receive_next_fn; without
\* the sender it is status and, in the I/O thread, each command of
\* process_server_rx and try_process_client.
ClientCall(c, sends) ==
    <<LockOf(ClientMutex(c))>>
    \o (IF sends THEN <<LockOf(SenderMutex), DropOf(SenderMutex)>> ELSE <<>>)
    \o <<DropOf(ClientMutex(c))>>

\* ServerIncoming::add_listener
SenderCall == <<LockOf(SenderMutex), DropOf(SenderMutex)>>

\* StreamThread::add_audio_stream: the map locked over into_stream
AddAudioStreamCall(c, sends) ==
    <<LockOf(MapMutex)>> \o ClientCall(c, sends) \o <<DropOf(MapMutex)>>

RECURSIVE PassOver(_)
\* the pairs of one pass: status(), and for Ready feed() or drain()
PassOver(pairs) ==
    IF pairs = <<>> THEN <<>>
    ELSE ClientCall(Head(pairs).client, FALSE)
         \o (IF Head(pairs).ready THEN ClientCall(Head(pairs).client, Head(pairs).sends)
             ELSE <<>>)
         \o PassOver(Tail(pairs))

\* the driver's pass: the map locked over all its pairs
DriverPassCall(pairs) == <<LockOf(MapMutex)>> \o PassOver(pairs) \o <<DropOf(MapMutex)>>

Threads == {"io", "worker", "driver", "api1", "api2"}

\* the pairs a pass may find: a connection whose status is Ready is fed, with
\* its token or (closed since status) without
Passes ==
    UNION {[1..n -> {[client |-> c, ready |-> r, sends |-> r /\ x] :
                        c \in Conns, r \in BOOLEAN, x \in BOOLEAN}] : n \in 0..MaxStreams}

\* the calls each thread makes
CallsOf(t) ==
    IF t = "io" THEN {ClientCall(c, FALSE) : c \in Conns}
    ELSE IF t = "worker" THEN {ClientCall(c, sends) : c \in Conns, sends \in BOOLEAN}
    ELSE IF t = "driver" THEN {DriverPassCall(pairs) : pairs \in Passes}
    ELSE {ClientCall(c, sends) : c \in Conns, sends \in BOOLEAN}
         \cup {AddAudioStreamCall(c, sends) : c \in Conns, sends \in BOOLEAN}
         \cup {SenderCall}

NoLocks ==
    [owner |-> [m \in Mutexes |-> "none"],
     plan |-> [t \in Threads |-> <<>>],
     held |-> [t \in Threads |-> <<>>]]

\* a thread enters a call
Call(t) ==
    /\ locks.plan[t] = <<>>
    /\ \E plan \in CallsOf(t) : locks' = [locks EXCEPT !.plan[t] = plan]
    /\ UNCHANGED <<scanVars, serverVars, stream_thread, cache, audio, lyrics, query, sheet, opening>>

\* Mutex::lock returns: the mutex was free
LockStep(t) ==
    /\ locks.plan[t] # <<>> /\ Head(locks.plan[t]).op = "lock"
    /\ locks.owner[Head(locks.plan[t]).mutex] = "none"
    /\ locks' = [locks EXCEPT !.owner[Head(locks.plan[t]).mutex] = t,
                              !.held[t] = Append(@, Head(locks.plan[t]).mutex),
                              !.plan[t] = Tail(@)]
    /\ UNCHANGED <<scanVars, serverVars, stream_thread, cache, audio, lyrics, query, sheet, opening>>

\* a MutexGuard is dropped
DropStep(t) ==
    /\ locks.plan[t] # <<>> /\ Head(locks.plan[t]).op = "drop"
    /\ locks' = [locks EXCEPT !.owner[Head(locks.plan[t]).mutex] = "none",
                              !.held[t] = SubSeq(@, 1, Len(@) - 1),
                              !.plan[t] = Tail(@)]
    /\ UNCHANGED <<scanVars, serverVars, stream_thread, cache, audio, lyrics, query, sheet, opening>>

\* the state of the calls of the API at program start
InitApi ==
    /\ sheet = [NewSheet(<<>>, 0) EXCEPT !.pc = "done"]
    /\ lyrics = EmptyLyrics
    /\ opening = NoOpening
    /\ locks = NoLocks
    /\ query = [NewQuery(FALSE, <<>>, <<>>, <<>>, "release") EXCEPT !.pc = "done"]

\* the state of the driver, the cache and the audio task at program start
InitLib ==
    /\ stream_thread = IdleStreamThread
    /\ cache = EmptyCache
    /\ audio = [NewAudio(<<>>) EXCEPT !.pc = "done"]
    /\ InitApi

(***************************************************************************)
(* Spec: one caller runs complete scans (start, and stop once the worker   *)
(* has ended), the filesystem changes in between.                          *)
(***************************************************************************)
InitHist == [clean |-> FALSE, repeat |-> FALSE, prev |-> Catalog(EmptyIndex),
             base |-> Catalog(EmptyIndex), writes |-> {}, gone |-> {}]

InitFs == {f \in [FsPaths -> [present : BOOLEAN, mtime : {1}, kind : {"Directory", "File"}]] :
              /\ \A p \in FsPaths : f[p].kind = NodeTypeOf(p)
              /\ f[FsRoot].present
              /\ \A p \in FsPaths \ {FsRoot} : f[p].present => f[FsParent(p)].present}

InitThread ==
    /\ index = EmptyIndex
    /\ stop = FALSE
    /\ join_handle = None
    /\ lock = NoCaller
    /\ caller = [c \in Callers |-> IdleCaller]
    /\ scan = [w \in Workers |-> IdleWorker]
    /\ hist = InitHist
    /\ fsChanges = 0

Init == fs \in InitFs /\ InitThread /\ InitServer /\ InitLib

ApiStart == StartCheck("c1") \/ StartSpawn("c1")

ApiStop ==
    \/ (\A w \in Workers : scan[w].st # "running") /\ StopLock("c1")
    \/ StopJoin("c1")

Next ==
    \/ FsTouch
    \/ FsDelete
    \/ FsCreate
    \/ ApiStart
    \/ ApiStop
    \/ \E w \in Workers : WorkerStep(w)

Spec == Init /\ [][Next]_vars

(***************************************************************************)
(* SpecThread: two callers call start() and stop() in any order while the  *)
(* workers scan a filesystem that does not change: one empty directory     *)
(* under the root.                                                         *)
(***************************************************************************)
FsThread == [p \in FsPaths |-> [present |-> p \in {FsRoot, FsDirB}, mtime |-> 1,
                                 kind |-> NodeTypeOf(p)]]

InitT == fs = FsThread /\ InitThread /\ InitServer /\ InitLib

NextT ==
    \/ \E c \in Callers : StartCheck(c)
    \/ \E c \in Callers : StartSpawn(c)
    \/ \E c \in Callers : StopLock(c)
    \/ \E c \in Callers : StopJoin(c)
    \/ \E w \in Workers : WorkerStep(w)

SpecThread == InitT /\ [][NextT]_vars

(***************************************************************************)
(* SpecStop: one caller calls start() and stop() at any time while the     *)
(* worker scans a filesystem that does not change.                         *)
(***************************************************************************)
FsStop == [p \in FsPaths |-> [present |-> TRUE, mtime |-> 1, kind |-> NodeTypeOf(p)]]

InitS == fs = FsStop /\ InitThread /\ InitServer /\ InitLib

NextS ==
    \/ StartCheck("c1")
    \/ StartSpawn("c1")
    \/ StopLock("c1")
    \/ StopJoin("c1")
    \/ \E w \in Workers : WorkerStep(w)

SpecStop == InitS /\ [][NextS]_vars

(***************************************************************************)
(* SpecCover: complete scans of the whole tree with a cover image beside   *)
(* 01.flac, and a file or directory removed between two scans.             *)
(***************************************************************************)
FsCover == [p \in FsPaths \cup {FsCoverB} |->
              [present |-> TRUE, mtime |-> 1, kind |-> NodeTypeOf(p)]]

InitCover == fs = FsCover /\ InitThread /\ InitServer /\ InitLib

NextCover ==
    \/ FsDelete
    \/ ApiStart
    \/ ApiStop
    \/ \E w \in Workers : WorkerStep(w)

SpecCover == InitCover /\ [][NextCover]_vars

(***************************************************************************)
(* SpecKind: complete scans of the whole fixture, with files written to    *)
(* and files replaced by directories in between.                           *)
(***************************************************************************)
NextKind ==
    \/ FsTouch
    \/ FsRetype
    \/ ApiStart
    \/ ApiStop
    \/ \E w \in Workers : WorkerStep(w)

SpecKind == InitS /\ [][NextKind]_vars

(***************************************************************************)
(* SpecGrain: Spec, and files that appear without a new modified time of   *)
(* their directory.                                                        *)
(***************************************************************************)
NextGrain ==
    \/ FsTouch
    \/ FsDelete
    \/ FsCreate
    \/ FsAppear
    \/ ApiStart
    \/ ApiStop
    \/ \E w \in Workers : WorkerStep(w)

SpecGrain == Init /\ [][NextGrain]_vars

(***************************************************************************)
(* SpecAlbum: process_node_updates on directory A of a catalog that holds  *)
(* the fixture's nodes and up to MaxAlbumTracks tracks of one album name,  *)
(* on the file in A or on the file in B, inserted as the audio handler     *)
(* inserts them.                                                           *)
(***************************************************************************)
\* the nodes as a first scan's prepare_node makes them
AlbumRoot == PrepareNode(EmptyIndex, FsStop, NoNode, NodeArgName(Roots[1].name))
AlbumDirA == PrepareNode(AlbumRoot.db, FsStop, AlbumRoot.node, NodeArgName(FsName(FsDirA)))
AlbumFileA == PrepareNode(AlbumDirA.db, FsStop, AlbumDirA.node, NodeArgName(FsName(FsFlacA)))
AlbumDirB == PrepareNode(AlbumFileA.db, FsStop, AlbumRoot.node, NodeArgName(FsName(FsDirB)))
AlbumFileB == PrepareNode(AlbumDirB.db, FsStop, AlbumDirB.node, NodeArgName(FsName(FsFlacB)))

ArtistNames == {"X", "P"}

\* the tags of a track: its artist, and an album artist or none
TrackTags ==
    [node_id : {AlbumFileA.node.node_id, AlbumFileB.node.node_id},
     artist_name : ArtistNames, has_album_artist : {TRUE}, album_artist_name : ArtistNames]
    \cup [node_id : {AlbumFileA.node.node_id, AlbumFileB.node.node_id},
          artist_name : ArtistNames, has_album_artist : {FALSE}, album_artist_name : {""}]

\* the Track value the audio handler builds of the tags
TaggedTrack(tags, i) ==
    [track_id |-> 0, node_id |-> tags.node_id, stream_index |-> 0, track_index |-> i,
     start |-> NoStart, number |-> i, title |-> "T", artist_id |-> 0,
     artist_name |-> tags.artist_name, album_id |-> 0, album_name |-> "Y",
     album_artist_id |-> None, album_artist_name |-> tags.album_artist_name,
     has_album_artist |-> tags.has_album_artist, length |-> 600]

AlbumCatalog(tagged) ==
    InsertTracks(AlbumFileB.db, [i \in 1..Len(tagged) |-> TaggedTrack(tagged[i], i)], 1)

InitAlbum ==
    /\ fs = FsStop
    /\ index \in {AlbumCatalog(tagged) :
                    tagged \in UNION {[1..n -> TrackTags] : n \in 1..MaxAlbumTracks}}
    /\ stop = FALSE /\ join_handle = None /\ lock = NoCaller
    /\ caller = [c \in Callers |-> IdleCaller]
    /\ scan = [w \in Workers |-> IdleWorker]
    /\ hist = InitHist /\ fsChanges = 0
    /\ InitServer /\ InitLib

\* process_node_updates(A), once
UpdateAlbums ==
    /\ index.updates = {}
    /\ \E reps \in GroupReps(index) :
         index' = ProcessNodeUpdates(index, AlbumDirA.node.node_id, reps)
    /\ UNCHANGED <<serverVars, libVars, fs, fsChanges, stop, join_handle, lock, caller, scan, hist>>

SpecAlbum == InitAlbum /\ [][UpdateAlbums]_vars

(***************************************************************************)
(* SpecServer: the I/O thread, the incoming worker, the application and    *)
(* the peers; no scan runs.                                                *)
(***************************************************************************)
InitServerOnly == fs = FsStop /\ InitThread /\ InitServer /\ InitLib

NextServer ==
    \/ Poll
    \/ ProcessServerRx
    \/ TryProcessListener
    \/ TryProcessClient
    \/ Unhandled
    \/ ReceiveNext
    \/ AddListener
    \/ \E c \in Conns : Send(c)
    \/ \E c \in Conns : IntoStream(c)
    \/ \E c \in Conns : Feed(c)
    \/ \E c \in Conns : Drain(c)
    \/ StreamingNext
    \/ PeerConnect
    \/ PeerSend
    \/ PeerReset

SpecServer == InitServerOnly /\ [][NextServer]_vars

(***************************************************************************)
(* SpecServerLive: SpecServer with the I/O thread and the incoming worker  *)
(* scheduled fairly: each is a thread of its own in a loop that blocks    *)
(* only in poll.                                                           *)
(***************************************************************************)
IoThread == Poll \/ ProcessServerRx \/ TryProcessListener \/ TryProcessClient \/ Unhandled

SpecServerLive == SpecServer /\ WF_vars(IoThread) /\ WF_vars(ReceiveNext)

(***************************************************************************)
(* SpecHangup: the I/O thread, the incoming worker and an application that *)
(* answers with send, with peers that also shut their side down.           *)
(* SpecHangupLive schedules the two threads fairly.                        *)
(***************************************************************************)
NextHangup ==
    \/ Poll
    \/ ProcessServerRx
    \/ TryProcessListener
    \/ TryProcessClient
    \/ Unhandled
    \/ ReceiveNext
    \/ AddListener
    \/ \E c \in Conns : Send(c)
    \/ PeerConnect
    \/ PeerSend
    \/ PeerClose
    \/ PeerReset

SpecHangup == InitServerOnly /\ [][NextHangup]_vars

SpecHangupLive == SpecHangup /\ WF_vars(IoThread) /\ WF_vars(ReceiveNext)

(***************************************************************************)
(* SpecStream: the I/O thread, the incoming worker, the streaming driver   *)
(* and an application that passes every request to add_audio_stream.       *)
(***************************************************************************)
StreamThread ==
    StreamThreadNext \/ StreamThreadStatus \/ StreamThreadFeed \/ StreamThreadRemove

NextStream ==
    \/ Poll
    \/ ProcessServerRx
    \/ TryProcessListener
    \/ TryProcessClient
    \/ Unhandled
    \/ ReceiveNext
    \/ AddListener
    \/ \E c \in Conns : AddAudioStream(c)
    \/ StreamThreadNext
    \/ StreamThreadStatus
    \/ StreamThreadFeed
    \/ StreamThreadRemove
    \/ PeerConnect
    \/ PeerSend
    \/ PeerReset

SpecStream == InitServerOnly /\ [][NextStream]_vars

\* the I/O thread, the incoming worker and the driver are scheduled fairly
SpecStreamLive ==
    SpecStream /\ WF_vars(IoThread) /\ WF_vars(ReceiveNext) /\ WF_vars(StreamThread)

(***************************************************************************)
(* SpecCache: set_blob and get_blob calls of any keys and sizes, one after *)
(* the other, as the clock advances.                                       *)
(***************************************************************************)
NextCache ==
    \/ \E key \in Keys : \E size \in 1..MaxBlob : SetBlob(key, size)
    \/ \E key \in Keys : GetBlob(key)
    \/ Tick

SpecCache == InitServerOnly /\ [][NextCache]_vars

(***************************************************************************)
(* SpecAudio: execute over every producer, the receiver dropped at any     *)
(* time.                                                                   *)
(***************************************************************************)
InitAudio ==
    /\ fs = FsStop /\ InitThread /\ InitServer
    /\ stream_thread = IdleStreamThread /\ cache = EmptyCache /\ InitApi
    /\ audio \in {NewAudio(producer) : producer \in Producers}

NextAudio == Execute \/ ReceiverDrop

SpecAudio == InitAudio /\ [][NextAudio]_vars

(***************************************************************************)
(* SpecLyrics: calls of api_track_lyrics for any tracks, handled at once   *)
(* by the threads of the service, as fetches end, the clock advances and   *)
(* the scan deletes tracks.                                                *)
(***************************************************************************)
NextLyrics ==
    \/ \E r \in 1..MaxRequests : \E track_id \in TrackIds : ApiTrackLyrics(r, track_id)
    \/ \E r \in 1..MaxRequests : \E outcome \in Outcomes : TryFetchLyrics(r, outcome)
    \/ LyricsTick
    \/ \E track_id \in TrackIds : DeleteTrack(track_id)

SpecLyrics == InitServerOnly /\ [][NextLyrics]_vars

(***************************************************************************)
(* SpecQuery: HttpQuery::from of the encoded form of every key and value,  *)
(* and of every short query string, in a debug and in a release build.     *)
(***************************************************************************)
Builds == {"debug", "release"}

InitQuery ==
    /\ fs = FsStop /\ InitThread /\ InitServer
    /\ stream_thread = IdleStreamThread /\ cache = EmptyCache
    /\ audio = [NewAudio(<<>>) EXCEPT !.pc = "done"]
    /\ lyrics = EmptyLyrics
    /\ opening = NoOpening
    /\ locks = NoLocks
    /\ sheet = [NewSheet(<<>>, 0) EXCEPT !.pc = "done"]
    /\ query \in {NewQuery(TRUE, key, value, EncodeUrl(key) \o <<Equals>> \o EncodeUrl(value), build) :
                     key \in SeqsUpTo(QueryBytes, MaxQueryLen),
                     value \in SeqsUpTo(QueryBytes, MaxQueryLen), build \in Builds}
                 \cup {NewQuery(FALSE, <<>>, <<>>, src, build) :
                         src \in SeqsUpTo(QueryBytes \cup {Ampersand, Equals}, MaxRawLen),
                         build \in Builds}

SpecQuery == InitQuery /\ [][ParseQuery]_vars

(***************************************************************************)
(* SpecCue: the lengths of the tracks of one FILE section, its INDEX 01    *)
(* times in order, for a master as long as the last start or longer.       *)
(***************************************************************************)
\* the INDEX 01 times of the sheets
CueMins == {0, 1}
CueSecs == {0, 7, 41}
CueFrames == {0, 3, 30, 74}
CueStarts == {CueStart(mins, secs, frames) : mins \in CueMins, secs \in CueSecs, frames \in CueFrames}

\* the lengths of the masters: whole seconds, the last with a half
MasterLengths == {102 * One, 120 * One, 127 * One + One \div 2}

InOrder(starts) == \A i \in 1..(Len(starts) - 1) : starts[i] < starts[i + 1]

InitCue ==
    /\ fs = FsStop /\ InitThread /\ InitServer
    /\ stream_thread = IdleStreamThread /\ cache = EmptyCache
    /\ audio = [NewAudio(<<>>) EXCEPT !.pc = "done"]
    /\ lyrics = EmptyLyrics
    /\ opening = NoOpening
    /\ locks = NoLocks
    /\ query = [NewQuery(FALSE, <<>>, <<>>, <<>>, "release") EXCEPT !.pc = "done"]
    /\ sheet \in {NewSheet(starts, length) :
                    starts \in {t \in UNION {[1..n -> CueStarts] : n \in 1..MaxCueTracks} : InOrder(t)},
                    length \in MasterLengths}

SpecCue == InitCue /\ [][CalculateLengths]_vars

(***************************************************************************)
(* SpecOpen: one api_audio_stream call for a track of any start and        *)
(* length, with any offset.                                                *)
(***************************************************************************)
\* Track.start (NULL, or the cue's INDEX 01) and Track.length, in seconds
TrackStarts == {NoStart, 0, 7 * One, 41 * One + One \div 2}
TrackLengths == {One, 34 * One, 61 * One + One \div 4}
\* the `start` parameter: whole seconds (get_i64)
Offsets == {0 - One, 0, One, 33 * One, 60 * One}

InitOpen ==
    /\ fs = FsStop /\ InitThread /\ InitServer
    /\ stream_thread = IdleStreamThread /\ cache = EmptyCache
    /\ audio = [NewAudio(<<>>) EXCEPT !.pc = "done"]
    /\ lyrics = EmptyLyrics
    /\ query = [NewQuery(FALSE, <<>>, <<>>, <<>>, "release") EXCEPT !.pc = "done"]
    /\ sheet = [NewSheet(<<>>, 0) EXCEPT !.pc = "done"]
    /\ opening \in {NewOpening(track_start, track_length, offset) :
                      track_start \in TrackStarts, track_length \in TrackLengths,
                      offset \in Offsets}
    /\ locks = NoLocks

SpecOpen == InitOpen /\ [][ApiAudioStream]_vars

(***************************************************************************)
(* SpecLocks: the I/O thread, the incoming worker, the streaming driver    *)
(* and two API threads, each making its calls in any order at any speed.   *)
(***************************************************************************)
NextLocks ==
    \/ \E t \in Threads : Call(t)
    \/ \E t \in Threads : LockStep(t)
    \/ \E t \in Threads : DropStep(t)

SpecLocks == InitServerOnly /\ [][NextLocks]_vars

(***************************************************************************)
(* Properties of the scan and the catalog, checked under Spec.             *)
(***************************************************************************)
\* C1: a complete scan that follows a complete scan with no filesystem change
\* in between leaves the catalog as it was, modified times aside, and writes
\* the modified time of no node.
C1_ScanIdempotent ==
    hist.repeat => hist.prev = hist.base /\ hist.writes = {}

C1_Witness ==
    /\ hist.repeat
    /\ hist.base.tracks # {} /\ hist.base.images # {}
    /\ \E n \in hist.base.nodes : n.master_id # None

\* C2: whenever no scan is running, every track with a start belongs to a
\* node that has a master.
C2_VirtualTrackHasMaster ==
    Quiet => \A t \in index.tracks : t.start # NoStart =>
                \E n \in index.nodes : n.node_id = t.node_id /\ n.master_id # None

\* the cue sheet and its FILE are on disk, and the catalog has a row for each
CuePair(db) ==
    {pair \in db.nodes \X db.nodes :
        /\ MapFsPath(pair[1].path).path = FsCueA /\ MapFsPath(pair[2].path).path = FsFlacA
        /\ fs[FsCueA].present /\ fs[FsFlacA].present}

\* C3: after a complete scan of a directory that holds the cue sheet and the
\* audio file it names, the audio file's node has the cue's node as master and
\* carries the cue's virtual tracks and no other.
C3_CueOwnsAudio ==
    hist.clean => \A pair \in CuePair(index) :
        /\ pair[2].master_id = pair[1].node_id
        /\ \A t \in index.tracks : t.node_id = pair[2].node_id => t.start # NoStart
        /\ Cardinality({t \in index.tracks : t.node_id = pair[2].node_id})
             = Len(ParseCue(FsCueA).files[1].tracks)

\* C4: after a complete scan, the catalog holds no node of a file that was
\* deleted from disk, and no track and no image of such a node.
C4_DeletedFileGone ==
    hist.clean => \A g \in hist.gone :
        /\ \A n \in index.nodes : n.node_id # g.node_id
        /\ \A t \in index.tracks : t.node_id # g.node_id
        /\ \A i \in index.images : i.node_id # g.node_id

\* a deleted file that had tracks, under a directory whose modified time is
\* the one the catalog stores
C4_Witness ==
    /\ hist.clean
    /\ \E g \in hist.gone :
         /\ NodeTypeOf(MapFsPath(g.path).path) = "File"
         /\ \E t \in hist.prev.tracks : t.node_id = g.node_id
         /\ fs[FsParent(MapFsPath(g.path).path)].present
         /\ \E n \in index.nodes :
              /\ MapFsPath(n.path).path = FsParent(MapFsPath(g.path).path)
              /\ n.modified = fs[MapFsPath(n.path).path].mtime
              /\ n.node_id \notin index.writes

\* C5: the album find_album returns has the name asked for, and has a track
\* in the directory of the track's node or no track at all.
C5_FindAlbumSameDir ==
    index.last_find.album_id # None =>
        /\ index.last_find.album_name = index.last_find.name
        /\ index.last_find.same_dir \/ index.last_find.unused

(***************************************************************************)
(* Properties of start() and stop(), checked under SpecThread.             *)
(***************************************************************************)
\* C6: at most one scan worker thread is running at any time.
C6_OneWorker == Cardinality({w \in Workers : scan[w].st = "running"}) <= 1

\* C7: when stop() returns from joining, no scan worker is running and no
\* handle is stored.
C7_StopLeavesNoWorker ==
    [][\A c \in Callers :
          caller[c].pc = "stop_join" /\ caller'[c].pc = "idle" =>
              /\ join_handle' = None
              /\ \A w \in Workers : scan'[w].st # "running"]_vars

\* C8: the worker begins no root and no directory entry, catalog-known or new,
\* while the stop flag is set.
C8_NoUnitAfterStop ==
    \A w \in Workers : scan[w].last \in {"root", "known", "new"} => ~scan[w].last_stop

(***************************************************************************)
(* Properties of the connection server, checked under SpecServer.          *)
(***************************************************************************)
\* C9: when the worker takes the event of a connection that is open and in
\* Incoming, None changes nothing, Invalid sends Close and Receive sends
\* Waiting and hands the request and one handle to the application; the Close
\* command of an open connection clears its token, takes it out of the map and
\* returns the token to the pool; the Waiting command of an open connection
\* sets the state Waiting and registers no readiness.
C9_ParseDecides ==
    [][/\ (incoming_rx # <<>> /\ incoming_rx' = Tail(incoming_rx)) =>
            LET c == Head(incoming_rx)
                result == Parse(client[c].buffer)
            IN (client[c].token # None /\ client[c].state = "Incoming") =>
                 /\ client' = client
                 /\ result = "None" => server_rx' = server_rx /\ app' = app
                 /\ result = "Invalid" =>
                      server_rx' = Append(server_rx, Command("Close", c, <<>>)) /\ app' = app
                 /\ result = "Receive" =>
                      /\ server_rx' = Append(server_rx, Command("Waiting", c, <<>>))
                      /\ app' = [app EXCEPT ![c].requests = Append(@, client[c].buffer),
                                            ![c].incoming = @ + 1]
       /\ (server_rx # <<>> /\ server_rx' = Tail(server_rx)) =>
            LET command == Head(server_rx)
                c == command.client
            IN (c # None /\ client[c].token # None) =>
                 /\ command.kind = "Close" =>
                      /\ client'[c].token = None /\ client'[c].interest = "none"
                      /\ clients'[client[c].token] = None
                      /\ tokens' = Append(tokens, client[c].token)
                 /\ command.kind = "Waiting" =>
                      /\ client'[c] = [client[c] EXCEPT !.state = "Waiting", !.interest = "empty"]
                      /\ clients' = clients /\ tokens' = tokens]_vars

\* a connection whose request was handed out once is Waiting, registered for
\* no readiness
C9_Witness ==
    \E c \in Conns :
        /\ client[c].token # None /\ client[c].state = "Waiting" /\ client[c].interest = "empty"
        /\ env.client = c /\ env.result = "Receive" /\ env.state = "Incoming"
        /\ Len(app[c].requests) = 1 /\ app[c].incoming = 1

\* C10: an open connection in Waiting changes its state, its token or its
\* buffer only by the Drain command of send (to Drain, the buffer the
\* payload) or by the Stream command of into_stream (to Streaming, the buffer
\* the prelude).
C10_WaitingExits ==
    [][\A c \in Conns :
          (/\ client[c].token # None /\ client[c].state = "Waiting"
           /\ \/ client'[c].state # "Waiting"
              \/ client'[c].token # client[c].token
              \/ client'[c].buffer # client[c].buffer)
          => /\ server_rx # <<>> /\ Head(server_rx).client = c
             /\ client'[c].token = client[c].token
             /\ \/ /\ Head(server_rx) = Command("Drain", c, Payload)
                   /\ client'[c].state = "Drain" /\ client'[c].buffer = Payload
                \/ /\ Head(server_rx) = Command("Stream", c, Prelude)
                   /\ client'[c].state = "Streaming" /\ client'[c].buffer = Prelude]_vars

\* C11: for an open connection in Drain, a write takes off the front of the
\* buffer the bytes the socket accepted and no other, the connection is closed
\* when its buffer has become empty, and it is closed with bytes unsent only
\* when a write failed.
C11_DrainClosesWhenFlushed ==
    [][\A c \in Conns :
          (client[c].token # None /\ client[c].state = "Drain") =>
              /\ net'[c].written # net[c].written =>
                   \E n \in 1..Len(client[c].buffer) :
                       /\ net'[c].written = net[c].written \o SubSeq(client[c].buffer, 1, n)
                       /\ client'[c].buffer = SubSeq(client[c].buffer, n + 1, Len(client[c].buffer))
              /\ (net'[c].written # net[c].written /\ client'[c].buffer = <<>>) =>
                   /\ client'[c].token = None /\ clients'[client[c].token] = None
                   /\ tokens' = Append(tokens, client[c].token)
              /\ client'[c].token = None =>
                   \/ client'[c].buffer = <<>>
                   \/ net[c].reset /\ net'[c].written = net[c].written /\ server_rx' = server_rx]_vars

\* C12: once send() has queued its Drain command for a connection, the
\* payload is eventually written to the socket in full and the connection
\* closed, unless the peer resets the connection.
C12_SendFlushes ==
    \A c \in Conns :
        (\E i \in 1..Len(server_rx) : server_rx[i] = Command("Drain", c, Payload))
            ~> \/ net[c].reset
               \/ /\ client[c].token = None
                  /\ Len(net[c].written) >= Len(Payload)
                  /\ SubSeq(net[c].written, Len(net[c].written) - Len(Payload) + 1,
                            Len(net[c].written)) = Payload

(***************************************************************************)
(* Properties of the streaming path, checked under SpecStream.             *)
(***************************************************************************)
\* C13: the bytes written to the socket of a connection that was made a
\* stream are a prefix of the prelude, the fed buffers and the drained buffer
\* in the order of the calls.
C13_StreamInOrder ==
    \A c \in Conns : app[c].streaming > 0 => IsPrefix(net[c].written, app[c].calls)

\* the pairs of v whose index is not marked, in their order
RECURSIVE Unmarked(_, _)
Unmarked(v, marks) ==
    IF v = <<>> THEN <<>>
    ELSE Unmarked(SubSeq(v, 1, Len(v) - 1), marks)
            \o (IF Len(v) \in marks THEN <<>> ELSE <<v[Len(v)]>>)

\* C14: in a pass of the driver, a pair whose client is Waiting is passed over
\* with its producer where it was, a pair whose client is Closed is marked, a
\* pair whose client is Ready is marked when its producer has ended (and
\* drain was called with the last buffer); no step of the pass touches
\* another pair; the end of the pass removes the marked pairs and no other.
C14_PassRemovesMarked ==
    [][stream_thread' # stream_thread /\ stream_thread.pc # "wait" =>
         LET i == stream_thread.index
             streams == stream_thread.audio_streams
             marks == stream_thread.remove_indices
         IN IF stream_thread.pc = "feed"
            THEN /\ stream_thread'.audio_streams = streams
                 /\ stream_thread'.index = i + 1
                 /\ stream_thread'.remove_indices =
                       IF stream_thread.result THEN marks ELSE Append(marks, i)
                 /\ client[streams[i].client].token # None =>
                       server_rx' = Append(server_rx,
                          Command(IF stream_thread.result THEN "StreamFeed" ELSE "StreamDrain",
                                  streams[i].client, stream_thread.buf))
            ELSE IF i <= Len(streams)
            THEN /\ Len(stream_thread'.audio_streams) = Len(streams)
                 /\ \A j \in 1..Len(streams) :
                       j # i => stream_thread'.audio_streams[j] = streams[j]
                 /\ stream_thread'.audio_streams[i].client = streams[i].client
                 /\ Status(streams[i].client) = "Waiting" =>
                       /\ stream_thread'.audio_streams = streams
                       /\ stream_thread'.remove_indices = marks
                       /\ stream_thread'.pc = "status" /\ stream_thread'.index = i + 1
                 /\ Status(streams[i].client) = "Closed" =>
                       /\ stream_thread'.audio_streams = streams
                       /\ stream_thread'.remove_indices = Append(marks, i)
                       /\ stream_thread'.pc = "status" /\ stream_thread'.index = i + 1
                 /\ Status(streams[i].client) = "Ready" =>
                       /\ stream_thread'.remove_indices = marks
                       /\ stream_thread'.pc = "feed" /\ stream_thread'.index = i
                       /\ stream_thread'.result = Source[stream_thread'.audio_streams[i].at].more
                 /\ server_rx' = server_rx
            ELSE /\ stream_thread'.audio_streams =
                       Unmarked(streams, {marks[k] : k \in 1..Len(marks)})
                 /\ stream_thread'.pc = "wait"]_vars

\* a pass has removed a pair of one connection and left the pair of another,
\* whose producer it had advanced before
C14_Witness ==
    /\ stream_thread.pc = "wait"
    /\ \E c \in Conns : \E d \in Conns \ {c} :
         /\ app[c].streaming > 0 /\ app[d].streaming > 0
         /\ Len(stream_thread.audio_streams) = 1
         /\ stream_thread.audio_streams[1].client = d
         /\ stream_thread.audio_streams[1].at > 0

\* the commands of the channel that carry bytes for connection c
Pending(c) ==
    {k \in 1..Len(server_rx) :
        server_rx[k].client = c /\ server_rx[k].kind \in {"Stream", "StreamFeed", "StreamDrain"}}

\* C15: the driver feeds or drains an open connection only when no byte for
\* it is unsent: its buffer is empty and no command with bytes for it waits
\* in the channel.
C15_FeedsWhenNothingUnsent ==
    [][stream_thread.pc = "feed" /\ stream_thread'.pc # "feed" =>
          LET c == stream_thread.audio_streams[stream_thread.index].client
          IN client[c].token # None => client[c].buffer = <<>> /\ Pending(c) = {}]_vars

\* C16: a pair registered for a connection that is closed, whether it closed
\* while streaming or before into_stream was called, is eventually removed
\* from the driver's map.
C16_ClosedPairRemoved ==
    \A c \in Conns :
        (/\ client[c].token = None
         /\ \E k \in 1..Len(stream_thread.audio_streams) :
               stream_thread.audio_streams[k].client = c)
            ~> \A k \in 1..Len(stream_thread.audio_streams) :
                  stream_thread.audio_streams[k].client # c

(***************************************************************************)
(* Properties of the execute loop, checked under SpecAudio.                *)
(***************************************************************************)
\* the buffers of a sequence, one after the other
RECURSIVE Flat(_)
Flat(buffers) == IF buffers = <<>> THEN <<>> ELSE Head(buffers) \o Flat(Tail(buffers))

\* C17: the buffers execute has sent are, end to end, a prefix of the bytes
\* the producer handed over in the next() calls made; they are all of them
\* once the loop has ended with the channel connected; and next() is not
\* called after it has returned false.
C17_ExecuteSendsAll ==
    LET produced == Flat([k \in 1..audio.at |-> audio.producer[k].data])
    IN /\ ~audio.over
       /\ IsPrefix(Flat(audio.sent), produced)
       /\ (audio.pc = "done" /\ ~audio.disconnected) => Flat(audio.sent) = produced

(***************************************************************************)
(* Properties of the blob cache, checked under SpecCache.                  *)
(***************************************************************************)
\* C18: after every set_blob, of any key and any size, the sizes of the rows
\* of the cache sum to at most max_size.
C18_CacheWithinMax == cache.last = "set_blob" => SumSize(cache.rows) <= max_size

\* a blob larger than max_size was set while other blobs were stored
C18_Witness ==
    /\ cache.last = "set_blob"
    /\ Cardinality(cache.before) > 1
    /\ \E r \in cache.before : r.size > max_size /\ r.stored = cache.sets

\* C19: every row a set_blob evicts was accessed no later than every row it
\* leaves, and of rows accessed in the same second the one stored first goes
\* first; a get_blob hit sets the row's last_access to the clock; no two rows
\* have the same key.
C19_EvictsLeastRecent ==
    /\ cache.last = "set_blob" =>
          \A e \in cache.evicted : \A s \in cache.rows :
              \/ e.last_access < s.last_access
              \/ e.last_access = s.last_access /\ e.stored < s.stored
    /\ cache.last = "set_blob" =>
          \E r \in cache.before : r.stored = cache.sets /\ r.last_access = cache.now
    /\ (cache.last = "get_blob" /\ cache.result = "Some") =>
          \E r \in cache.rows : r.last_access = cache.now
    /\ \A r \in cache.rows : \A s \in cache.rows : r.key = s.key => r = s

\* a set_blob evicted a row and left one that was stored before it and read
\* after it
C19_Witness ==
    /\ cache.last = "set_blob"
    /\ \E e \in cache.evicted : \E s \in cache.rows :
          e.stored > s.stored /\ e.last_access < s.last_access

(***************************************************************************)
(* Properties of the catalog under interrupted scans, checked under        *)
(* SpecStop.                                                               *)
(***************************************************************************)
\* C20: in every state of the catalog, each track's artist_id is the id of an
\* Artist row and its album_id the id of an Album row.
C20_TrackRefsExist ==
    \A t \in index.tracks :
        /\ \E a \in index.artists : a.artist_id = t.artist_id
        /\ \E b \in index.albums : b.album_id = t.album_id

\* a scan that was stopped part-way has ended, with tracks in the catalog and
\* a file on disk that has no node yet
C20_Witness ==
    /\ stop /\ \A w \in Workers : scan[w].st # "running"
    /\ \E t \in index.tracks : t.start # NoStart
    /\ \E p \in FsPaths : fs[p].present /\ \A n \in index.nodes : MapFsPath(n.path).path # p


(***************************************************************************)
(* Properties of the catalog's Node rows.                                  *)
(***************************************************************************)
\* C21: in every reachable catalog state no two Node rows have the same
\* (parent_id, name): a node is only created where none of that name is under
\* that parent, also by the cue handler and after a kind change.
C21_SiblingNamesUnique ==
    \A n \in index.nodes : \A m \in index.nodes :
        (n.parent_id = m.parent_id /\ n.name = m.name) => n.node_id = m.node_id


(***************************************************************************)
(* Properties of process_node_updates, checked where scan_node calls it:   *)
(* the step that ends a directory some child of which changed.             *)
(***************************************************************************)
\* the tracks of an album on the nodes directly under a parent
TracksUnder(db, album_id, parent_id) ==
    {t \in db.tracks : /\ t.album_id = album_id
                       /\ \E n \in db.nodes : n.node_id = t.node_id /\ n.parent_id = parent_id}

\* worker w ends a directory and runs process_node_updates on it
Updates(w) ==
    /\ scan[w].st = "running" /\ scan[w].stack # <<>>
    /\ scan'[w].st = "running" /\ Len(scan'[w].stack) < Len(scan[w].stack)
    /\ StatChanged(Top(w).stat)

\* C22: after process_node_updates(parent) every album with a track on a node
\* directly under parent has an artist_name that is not NULL exactly when one
\* of those tracks has an artist_name that is not NULL; Track.artist_name is
\* NOT NULL, so every track of the album has one.
C22_AlbumArtistSet ==
    [][\A w \in Workers : Updates(w) =>
          \A a \in index'.albums :
              TracksUnder(index', a.album_id, Top(w).node.node_id) # {}
                  => (a.has_artist <=>
                        \E t \in TracksUnder(index', a.album_id, Top(w).node.node_id) :
                            t.artist_id # None)]_vars

\* a directory under the root has just ended, and an album with tracks has
\* the artist the update gave it
C22_Witness ==
    \E w \in Workers :
        /\ scan[w].last = "dir_done" /\ Len(scan[w].stack) = 1
        /\ \E a \in index.albums :
              /\ a.has_artist /\ a.artist_id # None
              /\ \E n \in index.nodes :
                    /\ n.parent_id # None
                    /\ TracksUnder(index, a.album_id, n.parent_id) # {}


(***************************************************************************)
(* Properties of api_track_lyrics, checked under SpecLyrics.               *)
(***************************************************************************)
\* C23: lyrics are fetched at most once per track.  Once a fetch for a track
\* has ended without error a TrackLyrics row of the track exists; every call
\* begun after that is answered with that row and calls no fetcher; a call
\* whose fetch fails stores nothing.
C23_FetchedOnce ==
    /\ [](\A t \in lyrics.tracks : lyrics.first[t] # NoRow => TrackLyrics(lyrics, t) # NoRow)
    /\ [][\A r \in 1..MaxRequests :
            (lyrics'.req[r] # lyrics.req[r] /\ lyrics'.req[r].pc = "idle")
            => /\ lyrics'.req[r].late
                  => /\ lyrics'.req[r].response = "ok"
                     /\ lyrics'.req[r].row = lyrics.first[lyrics'.req[r].track_id]
                     /\ ~lyrics'.req[r].fetched
                     /\ lyrics'.fetches = lyrics.fetches
               /\ lyrics'.req[r].response = "server_error" => lyrics'.rows = lyrics.rows]_vars


(***************************************************************************)
(* Properties of HttpQuery, checked under SpecQuery.                       *)
(***************************************************************************)
\* C24: parsing the URL-encoded form of key=value gives a map in which the
\* key maps to the value: '+' is decoded to a space and %HH to the byte 0xHH,
\* each encoded character once.
C24_QueryRoundTrip ==
    (query.pc = "done" /\ query.encoded)
        => /\ ~query.panic
           /\ [key |-> query.key, value |-> query.value] \in query.map

\* C25: decode_url ends for every input string without a panic: no index out
\* of range and no underflow in i <= len - 3, also for the strings of fewer
\* than three bytes that hold a '%' and those that end in '%' or '%H'.
C25_DecodeNeverPanics ==
    query.pc = "done" => ~query.panic


(***************************************************************************)
(* Properties of the token pool, checked under SpecServer.                 *)
(***************************************************************************)
\* the I/O thread asks the pool for a token in this step and finds it empty:
\* a connection accepted, or a listener added
Refused ==
    \/ /\ tokens = <<>>
       /\ \E c \in Conns : net[c].st = "pending" /\ net'[c].st = "dropped"
    \/ /\ tokens = <<>>
       /\ server_rx # <<>> /\ Head(server_rx).kind = "AddListener"
       /\ server_rx' = Tail(server_rx)

\* C26: when the pool of slots is empty, an attempt to take a slot (a
\* connection accepted, a listener added) makes no connection and no listener,
\* leaves every connection and its slot as they are, and reports a
\* max-connections error to the caller that asked for the slot.
C26_ExhaustedPoolReports ==
    [][Refused => /\ clients' = clients /\ client' = client
                  /\ listeners' = listeners /\ tokens' = tokens
                  /\ env'.alloc.refused /\ env'.alloc.returned = "Err"]_vars


(***************************************************************************)
(* Properties of scan_node and process_directory_node.                     *)
(***************************************************************************)
\* the names of the nodes directly under a node
ChildNames(db, node_id) == {n.name : n \in {m \in db.nodes : m.parent_id = node_id}}

\* the directory a worker is in has the modified time the catalog stores
Unmodified(frame) == frame.node.modified = frame.modified

\* the FILE names of the cue sheet that is the known child a worker scans next
CueFileNames(frame) ==
    IF frame.index_nodes = <<>> \/ Extension(MapFsPath(Head(frame.index_nodes).path).path) # "cue"
    THEN {}
    ELSE {ParseCue(MapFsPath(Head(frame.index_nodes).path).path).files[i].path :
            i \in 1..Len(ParseCue(MapFsPath(Head(frame.index_nodes).path).path).files)}

\* no entry is read for an unmodified directory
NoEntriesRead ==
    \A w \in Workers : \A k \in 1..Len(scan[w].stack) :
        Unmodified(scan[w].stack[k]) => scan[w].stack[k].fs_entries = {}

\* every node of a present path has the path's modified time
ModifiedStored ==
    \A n \in index.nodes :
        Metadata(fs, MapFsPath(n.path).path).ok
            => n.modified = Metadata(fs, MapFsPath(n.path).path).modified

\* C27 as stated: for a directory whose modified time on disk is the stored
\* one the scan reads no directory entries and creates no new node directly
\* under it, yet stats and scans every child the catalog knows, so that a
\* modified file or directory however deep below unmodified directories is
\* processed again: after a complete scan every node has the modified time
\* of its path.
C27_NoNewNodeUnmodified ==
    /\ []NoEntriesRead
    /\ [][\A w \in Workers :
            (scan[w].stack # <<>> /\ scan'[w] # scan[w] /\ Unmodified(Top(w)))
            => ChildNames(index', Top(w).node.node_id) \subseteq ChildNames(index, Top(w).node.node_id)]_vars
    /\ [](hist.clean => ModifiedStored)

\* C27 amended: for a directory whose modified time on disk is the stored
\* one the scan reads no directory entries, and a step in it adds no child
\* name other than the FILE names of a cue sheet that is a known child (the
\* cue handler's prepare_node); it stats and scans every child the catalog
\* knows: after a complete scan every node has the modified time of its path.
C27_UnmodifiedDirDescends ==
    /\ []NoEntriesRead
    /\ [][\A w \in Workers :
            (scan[w].stack # <<>> /\ scan'[w] # scan[w] /\ Unmodified(Top(w)))
            => ChildNames(index', Top(w).node.node_id)
                 \subseteq ChildNames(index, Top(w).node.node_id) \cup CueFileNames(Top(w))]_vars
    /\ [](hist.clean => ModifiedStored)

\* a complete scan after a file two levels below the root was written to:
\* the directories above it were not modified, the file's new time is stored
C27_Witness ==
    /\ hist.clean
    /\ \E n \in index.nodes :
         /\ MapFsPath(n.path).path = FsFlacB
         /\ n.node_id \in index.writes
         /\ fs[FsFlacB].mtime # fs[FsDirB].mtime
         /\ n.modified = fs[FsFlacB].mtime
         /\ \A d \in index.nodes : d.node_type = "Directory" => d.node_id \notin index.writes

\* worker w ends a directory: process_directory_node has returned and
\* scan_node goes on to its end
Closes(w) ==
    /\ scan[w].st = "running" /\ scan[w].stack # <<>>
    /\ scan'[w].st = "running" /\ Len(scan'[w].stack) < Len(scan[w].stack)

\* process_node_updates(node_id) runs in the step
UpdatesRun(node_id) == node_id \in index'.updates /\ node_id \notin index.updates

\* set_node_modified(node_id, _) runs in the step
ModifiedWritten(node_id) == node_id \in index'.writes /\ node_id \notin index.writes

\* while process_directory_node is in a directory neither call was made for it
NotBeforeDirectory ==
    \A w \in Workers : \A k \in 1..Len(scan[w].stack) :
        /\ scan[w].stack[k].node.node_id \notin index.updates
        /\ scan[w].stack[k].node.node_id \notin index.writes

\* the order of the calls at the end of a directory: the modified time is
\* written when it is new, and it is the last call
ModifiedLast(w) ==
    /\ ModifiedWritten(Top(w).node.node_id) <=> Top(w).node.modified # Top(w).modified
    /\ (UpdatesRun(Top(w).node.node_id) /\ ModifiedWritten(Top(w).node.node_id))
         => index'.last_call = [name |-> "set_node_modified", node_id |-> Top(w).node.node_id]
    /\ (UpdatesRun(Top(w).node.node_id) /\ ~ModifiedWritten(Top(w).node.node_id))
         => index'.last_call = [name |-> "process_node_updates", node_id |-> Top(w).node.node_id]

MostFrequent(pairs, rows, PairOf(_)) ==
    {p \in pairs : \A q \in pairs :
        Cardinality({t \in rows : PairOf(t) = p}) >= Cardinality({t \in rows : PairOf(t) = q})}

AlbumArtistPair(t) == [id |-> t.album_artist_id, name |-> t.album_artist_name]
ArtistPair(t) == [id |-> t.artist_id, name |-> t.artist_name]

\* the (artist_id, artist_name) an album is to have by its tracks under a
\* parent: a most frequent album artist pair that is not NULL, or when no
\* track has one a most frequent artist pair
ExpectedArtists(db, album_id, parent_id) ==
    LET rows == TracksUnder(db, album_id, parent_id)
        tagged == {t \in rows : t.album_artist_id # None}
    IN IF tagged # {} THEN MostFrequent({AlbumArtistPair(t) : t \in tagged}, tagged, AlbumArtistPair)
       ELSE MostFrequent({ArtistPair(t) : t \in rows}, rows, ArtistPair)

\* C29: process_node_updates(parent) sets each affected album's (artist_id,
\* artist_name) to the most frequent (album_artist_id, album_artist_name)
\* pair that is not NULL among the album's tracks under parent, and falls
\* back to the most frequent (artist_id, artist_name) pair only when no
\* track has an album artist.
C29_MostFrequentPair ==
    \A parent_id \in index.updates : \A a \in index.albums :
        TracksUnder(index, a.album_id, parent_id) # {}
            => [id |-> a.artist_id, name |-> a.artist_name]
                 \in ExpectedArtists(index, a.album_id, parent_id)

(***************************************************************************)
(* Properties of the cue handler's lengths, checked under SpecCue.         *)
(***************************************************************************)
\* the start after track i: the next track's, or the master's length
NextStart(i) == IF i = Len(sheet.starts) THEN sheet.length ELSE sheet.starts[i + 1]

RECURSIVE SumTo(_, _)
\* the exact sum of the first n numbers of a sequence
SumTo(seq, n) == IF n = 0 THEN 0 ELSE SumTo(seq, n - 1) + seq[n]

Abs(x) == IF x < 0 THEN 0 - x ELSE x

RECURSIVE FSumTo(_, _)
\* the sum of the first n numbers of a sequence as f64 additions give it
FSumTo(seq, n) == IF n = 0 THEN 0 ELSE FAdd(FSumTo(seq, n - 1), seq[n])

StreamingEmpty(cl, c) ==
    cl[c].token # None /\ cl[c].state = "Streaming" /\ cl[c].buffer = <<>>

C32_HandedOutOnce ==
    [][\A c \in Conns :
          (/\ app[c].requests # <<>>
           /\ incoming_rx # <<>> /\ Head(incoming_rx) = c
           /\ incoming_rx' = Tail(incoming_rx)) =>
                /\ app'[c].requests = app[c].requests
                /\ server_rx' = server_rx]_vars


\* the paths of the filesystem that have a node in the catalog
NodePaths(db) == {MapFsPath(n.path).path : n \in db.nodes}

\* C33: when the last scan ran to completion (no loop of it was cut short
\* by the stop flag), whatever scans were stopped before it, the catalog has
\* a node for every path on disk, as it has after one uninterrupted scan.
C33_StoppedScanLosesNothing ==
    hist.clean => \A p \in FsPaths : fs[p].present => p \in NodePaths(index)


\* how many times token t is in the free pool
InPool(t) == Cardinality({i \in 1..Len(tokens) : tokens[i] = t})

\* the places that hold token t: the free pool (once for each time it is in
\* it), the listener map, the client map
Holders(t) ==
    InPool(t) + (IF t \in listeners THEN 1 ELSE 0) + (IF clients[t] # None THEN 1 ELSE 0)

\* C34: in every state every token is in exactly one of the free pool, the
\* listener map and the client map; the client map holds a connection under
\* a token exactly when that token is the connection's (a connection whose
\* token is None is not in the map); and every step that pushes to the pool
\* pushes one token, the token a connection held before the step and has
\* lost by it, which was not in the pool.
C34_SlotConservation ==
    /\ [](/\ \A t \in Tokens : Holders(t) = 1
          /\ \A t \in Tokens : \A c \in Conns : clients[t] = c <=> client[c].token = t)
    /\ [][Len(tokens') > Len(tokens) =>
            /\ tokens' = Append(tokens, tokens'[Len(tokens')])
            /\ InPool(tokens'[Len(tokens')]) = 0
            /\ \E c \in Conns : /\ client[c].token = tokens'[Len(tokens')]
                                /\ client'[c].token = None]_vars

\* a listener holds a token, one connection was closed, and a later
\* connection is open under the token that went through the pool
C34_Witness ==
    /\ listeners # {}
    /\ \E c, d \in Conns :
         /\ net[c].st = "accepted" /\ client[c].token = None
         /\ net[d].st = "accepted" /\ client[d].token # None /\ c < d
         /\ clients[client[d].token] = d


\* the images linked to the album in AlbumImage
Candidates(db, album_id) ==
    {ai.image_id : ai \in {x \in db.album_images : x.album_id = album_id}}

\* C35: after a complete scan every album that has a candidate image linked
\* in AlbumImage has an image_id, and it is one of its candidates.
C35_AlbumHasCover ==
    hist.clean => \A a \in index.albums :
        Candidates(index, a.album_id) # {} => a.image_id \in Candidates(index, a.album_id)

\* C36: for a virtual track with start t0 and length L and an offset s with
\* 0 <= s < L, the stream is opened at t0 + s with the length L - s, which
\* is greater than zero.
C36_VirtualStreamEnds ==
    (/\ opening.pc = "opened" /\ opening.track_start # NoStart
     /\ 0 <= opening.offset /\ opening.offset < opening.track_length) =>
        /\ opening.start = opening.track_start + opening.offset
        /\ opening.length = opening.track_length - opening.offset
        /\ opening.length > 0

\* C37: a connection in Incoming whose peer has shut down, with bytes sent
\* that are no complete request, is eventually closed: its token is taken
\* from it (and with that returned to the pool, C34).
C37_HangupCloses ==
    \A c \in Conns :
        (/\ client[c].token # None /\ client[c].state = "Incoming"
         /\ net[c].fin # "no" /\ ~net[c].reset
         /\ Parse(client[c].buffer \o net[c].inbound) = "None")
            ~> (client[c].token = None \/ net[c].reset)


\* C38: whenever no scan worker is running and no start() or stop() call is
\* under way, is_running() is false (so that the next start() spawns a scan).
C38_FinishedIsNotRunning == Quiet => ~IsRunning


\* C39: every set_blob call returns Ok.
C39_SetBlobSucceeds == cache.last = "set_blob" => cache.result = "Ok"

\* the thread is in lock() on a mutex that is held
Blocked(t) ==
    /\ locks.plan[t] # <<>> /\ Head(locks.plan[t]).op = "lock"
    /\ locks.owner[Head(locks.plan[t]).mutex] # "none"

\* the order of the mutexes: the driver's map, a client, the sender
Rank(m) == IF m = MapMutex THEN 1 ELSE IF m = SenderMutex THEN 3 ELSE 2

\* C40: in every state no set of threads is blocked for ever, each in lock()
\* on a mutex that a thread of the set holds; and the mutexes a thread holds
\* were locked in the order map, client, sender (one of each kind at most).
C40_NoDeadlock ==
    /\ \A D \in SUBSET Threads \ {{}} :
          ~ \A t \in D : Blocked(t) /\ locks.owner[Head(locks.plan[t]).mutex] \in D
    /\ \A t \in Threads : \A i, j \in 1..Len(locks.held[t]) :
          i < j => Rank(locks.held[t][i]) < Rank(locks.held[t][j])

\* a thread holds the map, a client and the sender, and two threads are in
\* lock() on mutexes it holds
C40_Witness ==
    \E t \in Threads :
        /\ Len(locks.held[t]) = 3
        /\ \E u, v \in Threads \ {t} :
              /\ u # v /\ Blocked(u) /\ Blocked(v)
              /\ locks.owner[Head(locks.plan[u]).mutex] = t
              /\ locks.owner[Head(locks.plan[v]).mutex] = t
              /\ Head(locks.plan[u]).mutex # Head(locks.plan[v]).mutex

====
